---- MODULE Spec2Model ----
(***************************************************************************)
(* Repetition-counting engine of AI-Workout-Counter: the four exercise     *)
(* counters (push-up, squat, arm-curl, pull-up) and the WorkoutCounter     *)
(* session that dispatches frames to them.                                 *)
(*                                                                         *)
(* Units.  The program computes in floats; the model computes the same     *)
(* quantities exactly, in integers:                                        *)
(*   angles        1/20 of a degree       (AngleU(170) is 170 degrees)     *)
(*   confidences   1/600                  (ConfU(30) is 0.30); a joint's   *)
(*                 confidence in a keypoint frame is in percent            *)
(*   positions     pixels (the frames used keep every mean an integer)     *)
(*   time          quarter seconds        (rep_cooldown 0.5 s is 2)        *)
(*   consecutive_up_frames / consecutive_down_frames   half frames         *)
(*                 (the decay of 0.5 is 1, min_consecutive_frames 3 is 6)  *)
(* Python's None is the empty tuple, a present value v is <<v>>.           *)
(***************************************************************************)
EXTENDS Integers, Sequences, FiniteSets, TLC

VARIABLES
    mode,         \* WorkoutCounter.mode
    counter,      \* WorkoutCounter.counter: the active ExerciseCounter
    frame_count,  \* WorkoutCounter.frame_count
    now,          \* the wall clock read by time.time()
    calls,        \* analyze/update calls made on the active counter instance
    op,           \* the operation that produced this state, with its input
    ret,          \* what that operation returned
    peer          \* a second WorkoutCounter object

vars == <<mode, counter, frame_count, now, calls, op, ret, peer>>

-----------------------------------------------------------------------------
(* Bounds of the exploration *)

MaxCalls == 7         \* updates explored on one push-up, squat or arm-curl counter
MaxCallsDirect == 8   \* direct analyze_pose calls explored on one such counter
MaxCallsPull == 10    \* calls explored on one pull-up counter
MaxCallsRange == 11   \* calls explored by SpecPullRange
MaxCallsDeep == 18    \* calls explored by SpecPullDeep
MaxCallsLate == 25    \* calls explored by SpecPullLate
BurstLen == 19        \* of them, the frames of SpecPullLate's opening burst
MaxCallsGap == 6      \* calls explored by SpecDwellGap
MaxFramesSent == 4    \* frames a session has been sent in SpecService
MaxTicks == 3         \* clock ticks explored
MaxCallsTwo == 3      \* calls explored on one counter by SpecTwo
MaxCallsSelect == 3   \* calls explored on one counter by SpecSelect
MaxCallsLegs == 3     \* calls explored by SpecLegs
MaxCallsStep == 9     \* calls explored by SpecPullStep
ClockStart == 100     \* the clock at construction (an epoch time, far above the cooldown)

-----------------------------------------------------------------------------
(* Program constants *)

UP_ANGLE_THRESHOLD == 135
DOWN_ANGLE_THRESHOLD == 105
MIN_CONFIDENCE == 30
MIN_FRAMES_IN_STATE == 2
PUSH_MAXLEN == 3

squat_up_threshold == 170
squat_down_threshold == 140
squat_min_confidence == 30
squat_sync_angle == 30
min_frames_in_state == 2
SQUAT_MAXLEN == 3

armcurl_up_threshold == 90
armcurl_down_threshold == 120
armcurl_min_confidence == 50
ARMCURL_MAXLEN == 5

min_confidence == 30
rep_cooldown == 2
min_consecutive_frames == 3
movement_threshold == 4
min_movement_range == 15
POSITION_MAXLEN == 30
DIRECTION_MAXLEN == 10
RECENT_LEN == 5

-----------------------------------------------------------------------------
(* Values *)

None == <<>>
Some(v) == <<v>>
AngleU(deg) == 20 * deg
ConfU(pct) == 6 * pct
Abs(x) == IF x < 0 THEN -x ELSE x
Max(a, b) == IF a >= b THEN a ELSE b

\* an append to a list that never evicts
DequeAppendUnbounded(q, v, n) == Append(q, v)

\* deque(maxlen=n).append
DequeAppend(q, v, n) ==
    IF Len(q) < n THEN Append(q, v) ELSE Append(Tail(q), v)

\* list(q)[-n:]
LastN(q, n) ==
    IF Len(q) <= n THEN q ELSE SubSeq(q, Len(q) - n + 1, Len(q))

RECURSIVE SumSeq(_)
SumSeq(q) == IF q = <<>> THEN 0 ELSE Head(q) + SumSeq(Tail(q))

\* np.mean over a non-empty window of angles (exact for the windows reached)
Mean(q) == SumSeq(q) \div Len(q)

-----------------------------------------------------------------------------
(* Keypoint frames: a 17-joint array kp[0..16] of <<x, y, confidence>>,    *)
(* the empty array, or None.                                               *)

L_SHOULDER == 5
R_SHOULDER == 6
L_ELBOW == 7
R_ELBOW == 8
L_WRIST == 9
R_WRIST == 10
L_HIP == 11
R_HIP == 12
L_KNEE == 13
R_KNEE == 14
L_ANKLE == 15
R_ANKLE == 16

\* a frame is [tag, kp]: None, or an array that is empty or holds 17 joints
NoFrame == [tag |-> "none", kp |-> <<>>]
EmptyFrame == [tag |-> "array", kp |-> <<>>]
Array(kp) == [tag |-> "array", kp |-> kp]

\* keypoints is None or len(keypoints) == 0
IsAbsent(f) == f.tag = "none" \/ DOMAIN f.kp = {}

\* directions of the lower limb segment seen from the middle joint; the upper
\* segment points straight up, so the joint angle is the one in the name
D0 == <<0, -1>>
D45 == <<1, -1>>
D90 == <<1, 0>>
D135 == <<1, 1>>
D180 == <<0, 1>>
DZero == <<0, 0>>     \* lower joint on the middle joint: a zero-length vector

RightSide == {R_SHOULDER, R_ELBOW, R_WRIST, R_HIP, R_KNEE, R_ANKLE}

\* a body with the given arm and leg directions and per-side confidences
Pose(ra, la, rl, ll, rc, lc) ==
  Array(
    [i \in 0..16 |->
        LET c == IF i \in RightSide THEN rc ELSE IF i >= L_SHOULDER THEN lc ELSE Max(rc, lc)
        IN  CASE i = R_SHOULDER -> <<100, 100, c>>
              [] i = L_SHOULDER -> <<200, 100, c>>
              [] i = R_ELBOW    -> <<100, 110, c>>
              [] i = L_ELBOW    -> <<200, 110, c>>
              [] i = R_WRIST    -> <<100 + 10 * ra[1], 110 + 10 * ra[2], c>>
              [] i = L_WRIST    -> <<200 + 10 * la[1], 110 + 10 * la[2], c>>
              [] i = R_HIP      -> <<100, 200, c>>
              [] i = L_HIP      -> <<200, 200, c>>
              [] i = R_KNEE     -> <<100, 250, c>>
              [] i = L_KNEE     -> <<200, 250, c>>
              [] i = R_ANKLE    -> <<100 + 50 * rl[1], 250 + 50 * rl[2], c>>
              [] i = L_ANKLE    -> <<200 + 50 * ll[1], 250 + 50 * ll[2], c>>
              [] OTHER          -> <<150, 50, c>>])

\* both arms and both legs alike
Sym(a, l, c) == Pose(a, a, l, l, c, c)

\* every joint of the frame has a confidence below pct percent
AllConfBelow(f, pct) == \A i \in DOMAIN f.kp : f.kp[i][3] < pct

-----------------------------------------------------------------------------
(* GeometryOps: calculate_angle.  The angle at b between b->a and b->c.    *)
(* arccos is evaluated on the cosines whose angle is a multiple of 45      *)
(* degrees; the frames of the model produce no other cosine.               *)

AngleOf(dot, n1, n2) ==
    CASE dot = 0                           -> AngleU(90)
      [] dot > 0 /\ dot * dot = n1 * n2     -> AngleU(0)
      [] dot < 0 /\ dot * dot = n1 * n2     -> AngleU(180)
      [] dot > 0 /\ 2 * dot * dot = n1 * n2 -> AngleU(45)
      [] dot < 0 /\ 2 * dot * dot = n1 * n2 -> AngleU(135)

calculate_angle(a, b, c) ==
    LET v1 == <<a[1] - b[1], a[2] - b[2]>>
        v2 == <<c[1] - b[1], c[2] - b[2]>>
        n1 == v1[1] * v1[1] + v1[2] * v1[2]
        n2 == v2[1] * v2[1] + v2[2] * v2[2]
    IN  IF n1 = 0 \/ n2 = 0
        THEN None
        ELSE Some(AngleOf(v1[1] * v2[1] + v1[2] * v2[2], n1, n2))

\* (kp[a][2] + kp[b][2] + kp[c][2]) / 3, in 1/600.  Confidences are compared
\* exactly; the frames explored keep the two sides' confidences away from
\* exactly 0.1 apart, where the rounding of the float subtraction decides.
MeanConf(kp, a, b, c) == 2 * (kp[a][3] + kp[b][3] + kp[c][3])

-----------------------------------------------------------------------------
(* What analyze_pose returns, as the service reads it: the count, the      *)
(* angle (angle exercises) and the position label (pull-up).               *)

Ret(count, angle, label) == [count |-> count, angle |-> angle, label |-> label]

-----------------------------------------------------------------------------
(* PushUpCounter *)

NewPushUp ==
    [kind |-> "pushup", count |-> 0, frame_count |-> 0, state |-> "up",
     last_state_change |-> 0, angle_history |-> <<>>, went_down |-> FALSE]

\* a selection that never averages the two arms
push_get_best_arm_angle_no_average(kp) ==
    LET r_confidence == MeanConf(kp, R_SHOULDER, R_ELBOW, R_WRIST)
        l_confidence == MeanConf(kp, L_SHOULDER, L_ELBOW, L_WRIST)
        r_angle == IF r_confidence >= ConfU(MIN_CONFIDENCE)
                   THEN calculate_angle(kp[R_SHOULDER], kp[R_ELBOW], kp[R_WRIST])
                   ELSE None
        l_angle == IF l_confidence >= ConfU(MIN_CONFIDENCE)
                   THEN calculate_angle(kp[L_SHOULDER], kp[L_ELBOW], kp[L_WRIST])
                   ELSE None
    IN  IF r_angle # None /\ l_angle # None
        THEN IF r_confidence > l_confidence
             THEN <<r_angle, r_confidence>>
             ELSE <<l_angle, l_confidence>>
        ELSE IF r_angle # None THEN <<r_angle, r_confidence>>
        ELSE IF l_angle # None THEN <<l_angle, l_confidence>>
        ELSE <<None, 0>>

\* returns <<angle or None, confidence>>
push_get_best_arm_angle(kp) ==
    LET r_confidence == MeanConf(kp, R_SHOULDER, R_ELBOW, R_WRIST)
        l_confidence == MeanConf(kp, L_SHOULDER, L_ELBOW, L_WRIST)
        r_angle == IF r_confidence >= ConfU(MIN_CONFIDENCE)
                   THEN calculate_angle(kp[R_SHOULDER], kp[R_ELBOW], kp[R_WRIST])
                   ELSE None
        l_angle == IF l_confidence >= ConfU(MIN_CONFIDENCE)
                   THEN calculate_angle(kp[L_SHOULDER], kp[L_ELBOW], kp[L_WRIST])
                   ELSE None
    IN  IF r_angle # None /\ l_angle # None
        THEN IF Abs(r_confidence - l_confidence) < ConfU(10)
             THEN <<Some((r_angle[1] + l_angle[1]) \div 2),
                    (r_confidence + l_confidence) \div 2>>
             ELSE IF r_confidence > l_confidence
                  THEN <<r_angle, r_confidence>>
                  ELSE <<l_angle, l_confidence>>
        ELSE IF r_angle # None THEN <<r_angle, r_confidence>>
        ELSE IF l_angle # None THEN <<l_angle, l_confidence>>
        ELSE <<None, 0>>

\* a smoothing that returns the newest sample
LastTwoMeanRaw(h) == h[Len(h)]

\* a smoothing over the whole window
LastTwoMeanWhole(h) == Mean(h)

\* the value smooth_angle returns, given the window after the append
LastTwoMean(h) == Mean(LastN(h, 2))

\* appends to the window; the smoothed value is LastTwoMean of the result
smooth_angle(c, angle) ==
    [c EXCEPT !.angle_history = DequeAppend(@, angle, PUSH_MAXLEN)]

_change_state(c, new_state) ==
    IF new_state # c.state
    THEN [c EXCEPT !.state = new_state, !.last_state_change = c.frame_count]
    ELSE c

\* a state machine that also changes state at the thresholds themselves
update_state_and_count_inclusive(c, angle) ==
    LET frames_in_current_state == c.frame_count - c.last_state_change
    IN  IF frames_in_current_state < MIN_FRAMES_IN_STATE THEN c
        ELSE IF c.state = "up"
             THEN IF angle <= AngleU(DOWN_ANGLE_THRESHOLD)
                  THEN [_change_state(c, "down") EXCEPT !.went_down = TRUE]
                  ELSE c
        ELSE IF c.state = "down"
             THEN IF angle >= AngleU(UP_ANGLE_THRESHOLD)
                  THEN LET d == _change_state(c, "up")
                       IN  IF d.went_down
                           THEN [d EXCEPT !.count = @ + 1, !.went_down = FALSE]
                           ELSE d
                  ELSE c
        ELSE c

update_state_and_count(c, angle) ==
    LET frames_in_current_state == c.frame_count - c.last_state_change
    IN  IF frames_in_current_state < MIN_FRAMES_IN_STATE THEN c
        ELSE IF c.state = "up"
             THEN IF angle < AngleU(DOWN_ANGLE_THRESHOLD)
                  THEN [_change_state(c, "down") EXCEPT !.went_down = TRUE]
                  ELSE c
        ELSE IF c.state = "down"
             THEN IF angle > AngleU(UP_ANGLE_THRESHOLD)
                  THEN LET d == _change_state(c, "up")
                       IN  IF d.went_down
                           THEN [d EXCEPT !.count = @ + 1, !.went_down = FALSE]
                           ELSE d
                  ELSE c
        ELSE c

\* analyze_pose from the point where get_best_arm_angle has returned
\* best = <<angle or None, confidence>>; c.frame_count is already incremented
push_analyze_best(c, best) ==
    IF best[1] = None \/ best[2] < ConfU(MIN_CONFIDENCE)
    THEN [c |-> c, ret |-> Ret(c.count, None, "")]
    ELSE LET s == smooth_angle(c, best[1][1])
             smoothed_angle == LastTwoMean(s.angle_history)
             d == update_state_and_count(s, smoothed_angle)
         IN  [c |-> d, ret |-> Ret(d.count, Some(smoothed_angle), "")]

push_analyze_pose(c0, f) ==
    LET c == [c0 EXCEPT !.frame_count = @ + 1]
    IN  IF IsAbsent(f)
        THEN [c |-> c, ret |-> Ret(c.count, None, "")]
        ELSE push_analyze_best(c, push_get_best_arm_angle(f.kp))

\* a reset that forgets to zero the count
push_reset_keeps_count(c) ==
    [c EXCEPT !.state = "up", !.frame_count = 0, !.last_state_change = 0,
              !.went_down = FALSE, !.angle_history = <<>>]

push_reset(c) ==
    [c EXCEPT !.count = 0, !.state = "up", !.frame_count = 0,
              !.last_state_change = 0, !.went_down = FALSE, !.angle_history = <<>>]

-----------------------------------------------------------------------------
(* SquatCounter *)

NewSquat ==
    [kind |-> "squat", count |-> 0, frame_count |-> 0, state |-> "up",
     last_state_change |-> 0, angle_history |-> <<>>, went_down |-> FALSE]

\* a choice that averages the two legs when their confidences are less than
\* 0.1 apart, whatever the angles
best_leg_angle_by_confidence(r_angle, l_angle, r_conf, l_conf) ==
    IF r_conf >= ConfU(squat_min_confidence) /\ l_conf >= ConfU(squat_min_confidence)
    THEN IF r_angle = None \/ l_angle = None
         THEN <<None, 0>>
         ELSE IF Abs(r_conf - l_conf) < ConfU(10)
              THEN <<Some((r_angle[1] + l_angle[1]) \div 2), (r_conf + l_conf) \div 2>>
              ELSE <<IF r_conf >= l_conf THEN r_angle ELSE l_angle, Max(r_conf, l_conf)>>
    ELSE IF r_conf >= ConfU(squat_min_confidence) THEN <<r_angle, r_conf>>
    ELSE IF l_conf >= ConfU(squat_min_confidence) THEN <<l_angle, l_conf>>
    ELSE <<None, 0>>

\* the choice get_best_leg_angle makes once it has the two knee angles (each
\* an angle or None) and the two mean confidences: <<angle or None,
\* confidence>>.  With both legs confident the code subtracts the two angles:
\* when one of them is None that raises, and the except clause returns
\* (None, 0).
best_leg_angle(r_angle, l_angle, r_conf, l_conf) ==
    IF r_conf >= ConfU(squat_min_confidence) /\ l_conf >= ConfU(squat_min_confidence)
    THEN IF r_angle = None \/ l_angle = None
         THEN <<None, 0>>
         ELSE IF Abs(r_angle[1] - l_angle[1]) < AngleU(squat_sync_angle)
              THEN <<Some((r_angle[1] + l_angle[1]) \div 2), (r_conf + l_conf) \div 2>>
              ELSE <<IF r_conf >= l_conf THEN r_angle ELSE l_angle, Max(r_conf, l_conf)>>
    ELSE IF r_conf >= ConfU(squat_min_confidence) THEN <<r_angle, r_conf>>
    ELSE IF l_conf >= ConfU(squat_min_confidence) THEN <<l_angle, l_conf>>
    ELSE <<None, 0>>

\* returns <<angle or None, confidence>>
get_best_leg_angle(kp) ==
    best_leg_angle(calculate_angle(kp[R_HIP], kp[R_KNEE], kp[R_ANKLE]),
                   calculate_angle(kp[L_HIP], kp[L_KNEE], kp[L_ANKLE]),
                   MeanConf(kp, R_HIP, R_KNEE, R_ANKLE),
                   MeanConf(kp, L_HIP, L_KNEE, L_ANKLE))

\* a state machine that counts the rep when the squat begins
squat_state_machine_counts_down(c, avg_angle) ==
    IF c.state = "up" /\ avg_angle < AngleU(squat_down_threshold)
    THEN [c EXCEPT !.state = "down", !.went_down = TRUE, !.count = @ + 1,
                   !.last_state_change = c.frame_count]
    ELSE IF c.state = "down" /\ avg_angle > AngleU(squat_up_threshold)
    THEN [c EXCEPT !.state = "up", !.went_down = FALSE,
                   !.last_state_change = c.frame_count]
    ELSE c

\* a state machine that leaves went_down set after counting
squat_state_machine_keeps_flag(c, avg_angle) ==
    IF c.state = "up" /\ avg_angle < AngleU(squat_down_threshold)
    THEN [c EXCEPT !.state = "down", !.went_down = TRUE,
                   !.last_state_change = c.frame_count]
    ELSE IF c.state = "down" /\ avg_angle > AngleU(squat_up_threshold)
    THEN LET d == [c EXCEPT !.state = "up", !.last_state_change = c.frame_count]
         IN  IF d.went_down
             THEN [d EXCEPT !.count = @ + 1]
             ELSE d
    ELSE c

\* the state machine of analyze_pose, on the smoothed angle
squat_state_machine(c, avg_angle) ==
    IF c.state = "up" /\ avg_angle < AngleU(squat_down_threshold)
    THEN [c EXCEPT !.state = "down", !.went_down = TRUE,
                   !.last_state_change = c.frame_count]
    ELSE IF c.state = "down" /\ avg_angle > AngleU(squat_up_threshold)
    THEN LET d == [c EXCEPT !.state = "up", !.last_state_change = c.frame_count]
         IN  IF d.went_down
             THEN [d EXCEPT !.count = @ + 1, !.went_down = FALSE]
             ELSE d
    ELSE c

\* an analyze_pose without the minimum-frames test
squat_analyze_best_no_dwell(c, best) ==
    IF best[1] = None \/ best[2] < ConfU(squat_min_confidence)
    THEN [c |-> c, ret |-> Ret(c.count, None, "")]
    ELSE LET s == [c EXCEPT !.angle_history = DequeAppend(@, best[1][1], SQUAT_MAXLEN)]
             avg_angle == LastTwoMean(s.angle_history)
             d == squat_state_machine(s, avg_angle)
         IN  [c |-> d, ret |-> Ret(d.count, Some(avg_angle), "")]

\* analyze_pose from the point where get_best_leg_angle has returned
squat_analyze_best(c, best) ==
    IF best[1] = None \/ best[2] < ConfU(squat_min_confidence)
    THEN [c |-> c, ret |-> Ret(c.count, None, "")]
    ELSE LET s == [c EXCEPT !.angle_history = DequeAppend(@, best[1][1], SQUAT_MAXLEN)]
             avg_angle == LastTwoMean(s.angle_history)
             frames_in_current_state == s.frame_count - s.last_state_change
             d == IF frames_in_current_state < min_frames_in_state
                  THEN s
                  ELSE squat_state_machine(s, avg_angle)
         IN  [c |-> d, ret |-> Ret(d.count, Some(avg_angle), "")]

\* an analyze_pose that counts a frame only once it has been accepted
squat_analyze_pose_counts_accepted(c0, f) ==
    LET c == [c0 EXCEPT !.frame_count = @ + 1]
        r == squat_analyze_best(c, get_best_leg_angle(f.kp))
    IN  IF IsAbsent(f)
        THEN [c |-> c0, ret |-> Ret(c0.count, None, "")]
        ELSE IF r.ret.angle = None
             THEN [c |-> c0, ret |-> r.ret]
             ELSE r

squat_analyze_pose(c0, f) ==
    LET c == [c0 EXCEPT !.frame_count = @ + 1]
    IN  IF IsAbsent(f)
        THEN [c |-> c, ret |-> Ret(c.count, None, "")]
        ELSE squat_analyze_best(c, get_best_leg_angle(f.kp))

\* a reset that leaves the smoothing window as it is
squat_reset_keeps_window(c) ==
    [c EXCEPT !.count = 0, !.state = "up", !.frame_count = 0,
              !.went_down = FALSE, !.last_state_change = 0]

squat_reset(c) ==
    [c EXCEPT !.count = 0, !.state = "up", !.angle_history = <<>>, !.frame_count = 0,
              !.went_down = FALSE, !.last_state_change = 0]

-----------------------------------------------------------------------------
(* ArmCurlCounter *)

NewArmCurl ==
    [kind |-> "armcurl", count |-> 0, frame_count |-> 0, state |-> "down",
     angle_history |-> <<>>]

\* a selection that averages the two arms when their confidences are less
\* than 0.1 apart
curl_get_best_arm_angle_averaging(kp) ==
    LET r_angle == calculate_angle(kp[R_SHOULDER], kp[R_ELBOW], kp[R_WRIST])
        l_angle == calculate_angle(kp[L_SHOULDER], kp[L_ELBOW], kp[L_WRIST])
        r_conf == MeanConf(kp, R_SHOULDER, R_ELBOW, R_WRIST)
        l_conf == MeanConf(kp, L_SHOULDER, L_ELBOW, L_WRIST)
    IN  IF r_angle # None /\ l_angle # None
        THEN IF Abs(r_conf - l_conf) < ConfU(10)
             THEN <<Some((r_angle[1] + l_angle[1]) \div 2), (r_conf + l_conf) \div 2>>
             ELSE IF r_conf >= l_conf THEN <<r_angle, r_conf>> ELSE <<l_angle, l_conf>>
        ELSE IF r_angle # None THEN <<r_angle, r_conf>>
        ELSE IF l_angle # None THEN <<l_angle, l_conf>>
        ELSE <<None, 0>>

\* returns <<angle or None, confidence>> (the side label is only logged)
curl_get_best_arm_angle(kp) ==
    LET r_angle == calculate_angle(kp[R_SHOULDER], kp[R_ELBOW], kp[R_WRIST])
        l_angle == calculate_angle(kp[L_SHOULDER], kp[L_ELBOW], kp[L_WRIST])
        r_conf == MeanConf(kp, R_SHOULDER, R_ELBOW, R_WRIST)
        l_conf == MeanConf(kp, L_SHOULDER, L_ELBOW, L_WRIST)
    IN  IF r_angle # None /\ l_angle # None
        THEN IF r_conf >= l_conf THEN <<r_angle, r_conf>> ELSE <<l_angle, l_conf>>
        ELSE IF r_angle # None THEN <<r_angle, r_conf>>
        ELSE IF l_angle # None THEN <<l_angle, l_conf>>
        ELSE <<None, 0>>

\* a state machine that counts as soon as the mean reaches the threshold
curl_state_machine_at_threshold(c, avg_angle) ==
    IF avg_angle < AngleU(armcurl_up_threshold) /\ c.state = "down"
    THEN [c EXCEPT !.state = "up"]
    ELSE IF avg_angle >= AngleU(armcurl_down_threshold) /\ c.state = "up"
    THEN [c EXCEPT !.count = @ + 1, !.state = "down"]
    ELSE c

\* a state machine that counts the rep when the curl is detected
curl_state_machine_counts_on_curl(c, avg_angle) ==
    IF avg_angle < AngleU(armcurl_up_threshold) /\ c.state = "down"
    THEN [c EXCEPT !.count = @ + 1, !.state = "up"]
    ELSE IF avg_angle > AngleU(armcurl_down_threshold) /\ c.state = "up"
    THEN [c EXCEPT !.state = "down"]
    ELSE c

\* a state machine that counts every extension, curled before or not
curl_state_machine_ungated(c, avg_angle) ==
    IF avg_angle < AngleU(armcurl_up_threshold) /\ c.state = "down"
    THEN [c EXCEPT !.state = "up"]
    ELSE IF avg_angle > AngleU(armcurl_down_threshold)
    THEN [c EXCEPT !.count = @ + 1, !.state = "down"]
    ELSE c

\* the state machine of analyze_pose, on the full-window mean
curl_state_machine(c, avg_angle) ==
    IF avg_angle < AngleU(armcurl_up_threshold) /\ c.state = "down"
    THEN [c EXCEPT !.state = "up"]
    ELSE IF avg_angle > AngleU(armcurl_down_threshold) /\ c.state = "up"
    THEN [c EXCEPT !.count = @ + 1, !.state = "down"]
    ELSE c

\* an analyze_pose that tests the angle but not the confidence
curl_analyze_best_no_floor(c, best) ==
    IF best[1] = None
    THEN [c |-> c, ret |-> Ret(c.count, None, "")]
    ELSE LET s == [c EXCEPT !.angle_history = DequeAppend(@, best[1][1], ARMCURL_MAXLEN)]
         IN  [c |-> s, ret |-> Ret(s.count, best[1], "")]

\* an analyze_pose that reports no angle until the window is full
curl_analyze_best_pending(c, best) ==
    IF best[1] = None \/ best[2] < ConfU(armcurl_min_confidence)
    THEN [c |-> c, ret |-> Ret(c.count, None, "")]
    ELSE LET s == [c EXCEPT !.angle_history = DequeAppend(@, best[1][1], ARMCURL_MAXLEN)]
         IN  IF Len(s.angle_history) = ARMCURL_MAXLEN
             THEN LET avg_angle == Mean(s.angle_history)
                      d == curl_state_machine(s, avg_angle)
                  IN  [c |-> d, ret |-> Ret(d.count, Some(avg_angle), "")]
             ELSE [c |-> s, ret |-> Ret(s.count, None, "")]

\* an analyze_pose whose state machine starts on the third sample, on the mean
\* of the samples held so far
curl_analyze_best_early(c, best) ==
    IF best[1] = None \/ best[2] < ConfU(armcurl_min_confidence)
    THEN [c |-> c, ret |-> Ret(c.count, None, "")]
    ELSE LET s == [c EXCEPT !.angle_history = DequeAppend(@, best[1][1], ARMCURL_MAXLEN)]
         IN  IF Len(s.angle_history) >= 3
             THEN LET avg_angle == Mean(s.angle_history)
                      d == curl_state_machine(s, avg_angle)
                  IN  [c |-> d, ret |-> Ret(d.count, Some(avg_angle), "")]
             ELSE [c |-> s, ret |-> Ret(s.count, best[1], "")]

\* analyze_pose from the point where get_best_arm_angle has returned
curl_analyze_best(c, best) ==
    IF best[1] = None \/ best[2] < ConfU(armcurl_min_confidence)
    THEN [c |-> c, ret |-> Ret(c.count, None, "")]
    ELSE LET s == [c EXCEPT !.angle_history = DequeAppend(@, best[1][1], ARMCURL_MAXLEN)]
         IN  IF Len(s.angle_history) = ARMCURL_MAXLEN
             THEN LET avg_angle == Mean(s.angle_history)
                      d == curl_state_machine(s, avg_angle)
                  IN  [c |-> d, ret |-> Ret(d.count, Some(avg_angle), "")]
             ELSE [c |-> s, ret |-> Ret(s.count, best[1], "")]

curl_analyze_pose(c, f) ==
    IF IsAbsent(f)
    THEN [c |-> c, ret |-> Ret(c.count, None, "")]
    ELSE curl_analyze_best(c, curl_get_best_arm_angle(f.kp))

curl_reset(c) ==
    [c EXCEPT !.count = 0, !.state = "down", !.angle_history = <<>>, !.frame_count = 0]

-----------------------------------------------------------------------------
(* PullUpCounter *)

NewPullUp ==
    [kind |-> "pullup", count |-> 0, frame_count |-> 0, position |-> "neutral",
     position_history |-> <<>>, direction_history |-> <<>>, last_rep_time |-> 0,
     current_direction |-> "stable",
     consecutive_up_frames |-> 0, consecutive_down_frames |-> 0]

\* an instantaneous direction measured from the oldest sample held
new_direction_of_oldest(position_history) ==
    LET movement == position_history[Len(position_history)] - position_history[1]
    IN  IF movement > movement_threshold THEN "up"
        ELSE IF movement < -movement_threshold THEN "down"
        ELSE "stable"

\* the instantaneous direction of a frame, from the window after the append
new_direction_of(position_history) ==
    LET recent == LastN(position_history, RECENT_LEN)
        movement == recent[Len(recent)] - recent[1]
    IN  IF movement > movement_threshold THEN "up"
        ELSE IF movement < -movement_threshold THEN "down"
        ELSE "stable"

\* counters that lose a whole frame on a frame without a clear direction
update_consecutive_full_decay(c, d) ==
    IF d = "up"
    THEN [c EXCEPT !.consecutive_up_frames = @ + 2, !.consecutive_down_frames = 0]
    ELSE IF d = "down"
    THEN [c EXCEPT !.consecutive_down_frames = @ + 2, !.consecutive_up_frames = 0]
    ELSE [c EXCEPT
            !.consecutive_up_frames = IF @ > 0 THEN Max(0, @ - 2) ELSE @,
            !.consecutive_down_frames = IF @ > 0 THEN Max(0, @ - 2) ELSE @]

\* counters where a frame of one direction leaves the other counter alone
update_consecutive_keeps_opposite(c, d) ==
    IF d = "up"
    THEN [c EXCEPT !.consecutive_up_frames = @ + 2]
    ELSE IF d = "down"
    THEN [c EXCEPT !.consecutive_down_frames = @ + 2]
    ELSE [c EXCEPT
            !.consecutive_up_frames = IF @ > 0 THEN Max(0, @ - 1) ELSE @,
            !.consecutive_down_frames = IF @ > 0 THEN Max(0, @ - 1) ELSE @]

\* the consecutive-frame counters after a frame of direction d (half frames)
update_consecutive(c, d) ==
    IF d = "up"
    THEN [c EXCEPT !.consecutive_up_frames = @ + 2, !.consecutive_down_frames = 0]
    ELSE IF d = "down"
    THEN [c EXCEPT !.consecutive_down_frames = @ + 2, !.consecutive_up_frames = 0]
    ELSE [c EXCEPT
            !.consecutive_up_frames = IF @ > 0 THEN Max(0, @ - 1) ELSE @,
            !.consecutive_down_frames = IF @ > 0 THEN Max(0, @ - 1) ELSE @]

\* a confirmation that falls back to stable whenever no counter qualifies
confirmed_direction_of_not_sticky(c) ==
    IF c.consecutive_up_frames >= 2 * min_consecutive_frames THEN "up"
    ELSE IF c.consecutive_down_frames >= 2 * min_consecutive_frames THEN "down"
    ELSE "stable"

confirmed_direction_of(c) ==
    IF c.consecutive_up_frames >= 2 * min_consecutive_frames THEN "up"
    ELSE IF c.consecutive_down_frames >= 2 * min_consecutive_frames THEN "down"
    ELSE IF c.consecutive_up_frames = 0 /\ c.consecutive_down_frames = 0 THEN "stable"
    ELSE c.current_direction

\* returns the counter after the call and the direction it returns
\* a detect_direction_change that logs the confirmed direction on every
\* frame, changed or not
detect_direction_change_logs_all(c, current_diff, t) ==
    LET a == [c EXCEPT !.position_history = DequeAppend(@, current_diff, POSITION_MAXLEN)]
    IN  IF Len(a.position_history) < RECENT_LEN
        THEN [c |-> a, direction |-> "starting"]
        ELSE LET b == update_consecutive(a, new_direction_of(a.position_history))
                 confirmed_direction == confirmed_direction_of(b)
                 d == [b EXCEPT
                         !.direction_history =
                             DequeAppend(@, <<confirmed_direction, t, current_diff>>,
                                         DIRECTION_MAXLEN),
                         !.current_direction = confirmed_direction]
             IN  [c |-> d, direction |-> confirmed_direction]

detect_direction_change(c, current_diff, t) ==
    LET a == [c EXCEPT !.position_history = DequeAppend(@, current_diff, POSITION_MAXLEN)]
    IN  IF Len(a.position_history) < RECENT_LEN
        THEN [c |-> a, direction |-> "starting"]
        ELSE LET b == update_consecutive(a, new_direction_of(a.position_history))
                 confirmed_direction == confirmed_direction_of(b)
                 d == IF confirmed_direction # b.current_direction
                      THEN [b EXCEPT
                              !.direction_history =
                                  DequeAppend(@, <<confirmed_direction, t, current_diff>>,
                                              DIRECTION_MAXLEN),
                              !.current_direction = confirmed_direction]
                      ELSE b
             IN  [c |-> d, direction |-> confirmed_direction]

\* a rep-counting block that leaves the change log in place
count_rep_keeps_log(c, current_time) ==
    IF current_time - c.last_rep_time > rep_cooldown
       /\ Len(c.direction_history) >= 2
    THEN LET recent_changes == LastN(c.direction_history, 2)
             movement_range == Abs(recent_changes[2][3] - recent_changes[1][3])
         IN  IF recent_changes[1][1] = "down" /\ recent_changes[2][1] = "up"
                /\ movement_range > min_movement_range
             THEN [c EXCEPT !.count = @ + 1, !.last_rep_time = current_time]
             ELSE c
    ELSE c

\* a rep-counting block that accepts any movement range
count_rep_any_range(c, current_time) ==
    IF current_time - c.last_rep_time > rep_cooldown
       /\ Len(c.direction_history) >= 2
    THEN LET recent_changes == LastN(c.direction_history, 2)
         IN  IF recent_changes[1][1] = "down" /\ recent_changes[2][1] = "up"
             THEN [c EXCEPT !.count = @ + 1, !.last_rep_time = current_time,
                            !.direction_history = <<>>]
             ELSE c
    ELSE c

\* a rep-counting block whose cooldown ends as soon as rep_cooldown has passed
count_rep_cooldown_inclusive(c, current_time) ==
    IF current_time - c.last_rep_time >= rep_cooldown
       /\ Len(c.direction_history) >= 2
    THEN LET recent_changes == LastN(c.direction_history, 2)
             movement_range == Abs(recent_changes[2][3] - recent_changes[1][3])
         IN  IF recent_changes[1][1] = "down" /\ recent_changes[2][1] = "up"
                /\ movement_range > min_movement_range
             THEN [c EXCEPT !.count = @ + 1, !.last_rep_time = current_time,
                            !.direction_history = <<>>]
             ELSE c
    ELSE c

\* a rep-counting block that pairs the newest UP with the newest DOWN logged
\* before it, whatever lies between them
count_rep_skips_stable(c, current_time) ==
    IF current_time - c.last_rep_time > rep_cooldown
       /\ Len(c.direction_history) >= 2
    THEN LET log == c.direction_history
             downs == {i \in 1..(Len(log) - 1) : log[i][1] = "down"}
         IN  IF log[Len(log)][1] = "up" /\ downs # {}
                /\ Abs(log[Len(log)][3]
                       - log[CHOOSE i \in downs : \A j \in downs : j <= i][3])
                     > min_movement_range
             THEN [c EXCEPT !.count = @ + 1, !.last_rep_time = current_time,
                            !.direction_history = <<>>]
             ELSE c
    ELSE c

\* a rep-counting block that counts a cycle only at the clock reading at
\* which its UP was logged
count_rep_only_when_logged(c, current_time) ==
    IF current_time - c.last_rep_time > rep_cooldown
       /\ Len(c.direction_history) >= 2
    THEN LET recent_changes == LastN(c.direction_history, 2)
             movement_range == Abs(recent_changes[2][3] - recent_changes[1][3])
         IN  IF recent_changes[1][1] = "down" /\ recent_changes[2][1] = "up"
                /\ recent_changes[2][2] = current_time
                /\ movement_range > min_movement_range
             THEN [c EXCEPT !.count = @ + 1, !.last_rep_time = current_time,
                            !.direction_history = <<>>]
             ELSE c
    ELSE c

\* the rep-counting block of analyze_pose, at clock reading current_time
count_rep(c, current_time) ==
    IF current_time - c.last_rep_time > rep_cooldown
       /\ Len(c.direction_history) >= 2
    THEN LET recent_changes == LastN(c.direction_history, 2)
             movement_range == Abs(recent_changes[2][3] - recent_changes[1][3])
         IN  IF recent_changes[1][1] = "down" /\ recent_changes[2][1] = "up"
                /\ movement_range > min_movement_range
             THEN [c EXCEPT !.count = @ + 1, !.last_rep_time = current_time,
                            !.direction_history = <<>>]
             ELSE c
    ELSE c

\* a labelling that passes on every direction it does not know
position_label_verbatim(direction) ==
    IF direction = "up" THEN "pulling_up"
    ELSE IF direction = "down" THEN "lowering_down"
    ELSE direction

position_label(direction) ==
    IF direction = "up" THEN "pulling_up"
    ELSE IF direction = "down" THEN "lowering_down"
    ELSE "stable"

\* wrist_y - shoulder_y of a frame
wrist_shoulder_diff(kp) ==
    LET shoulder_y == (kp[L_SHOULDER][2] + kp[R_SHOULDER][2]) \div 2
        wrist_y == (kp[L_WRIST][2] + kp[R_WRIST][2]) \div 2
    IN  wrist_y - shoulder_y

min_joint_confidence(kp) ==
    LET cs == {kp[L_SHOULDER][3], kp[R_SHOULDER][3], kp[L_WRIST][3], kp[R_WRIST][3]}
    IN  CHOOSE m \in cs : \A x \in cs : m <= x

\* an analyze_pose that lets the counters decay when nobody is in the frame
pull_analyze_pose_decays(c, f, t) ==
    IF IsAbsent(f)
    THEN [c |-> update_consecutive(c, "stable"), ret |-> Ret(c.count, None, "no_person")]
    ELSE IF min_joint_confidence(f.kp) < min_confidence
    THEN [c |-> c, ret |-> Ret(c.count, None, "low_confidence")]
    ELSE LET det == detect_direction_change(c, wrist_shoulder_diff(f.kp), t)
             d == count_rep(det.c, t)
             e == [d EXCEPT !.position = position_label(det.direction)]
         IN  [c |-> e, ret |-> Ret(e.count, None, e.position)]

pull_analyze_pose(c, f, t) ==
    IF IsAbsent(f)
    THEN [c |-> c, ret |-> Ret(c.count, None, "no_person")]
    ELSE IF min_joint_confidence(f.kp) < min_confidence
    THEN [c |-> c, ret |-> Ret(c.count, None, "low_confidence")]
    ELSE LET det == detect_direction_change(c, wrist_shoulder_diff(f.kp), t)
             d == count_rep(det.c, t)
             e == [d EXCEPT !.position = position_label(det.direction)]
         IN  [c |-> e, ret |-> Ret(e.count, None, e.position)]

pull_reset(c) ==
    [c EXCEPT !.count = 0, !.position = "neutral", !.position_history = <<>>,
              !.direction_history = <<>>, !.last_rep_time = 0,
              !.current_direction = "stable", !.consecutive_up_frames = 0,
              !.consecutive_down_frames = 0, !.frame_count = 0]

-----------------------------------------------------------------------------
(* ExerciseCounter: dispatch on the variant *)

analyze_pose(c, f, t) ==
    CASE c.kind = "pushup"  -> push_analyze_pose(c, f)
      [] c.kind = "squat"   -> squat_analyze_pose(c, f)
      [] c.kind = "armcurl" -> curl_analyze_pose(c, f)
      [] c.kind = "pullup"  -> pull_analyze_pose(c, f, t)

reset(c) ==
    CASE c.kind = "pushup"  -> push_reset(c)
      [] c.kind = "squat"   -> squat_reset(c)
      [] c.kind = "armcurl" -> curl_reset(c)
      [] c.kind = "pullup"  -> pull_reset(c)

-----------------------------------------------------------------------------
(* WorkoutCounter *)

KnownModes == {"chinup", "pullup", "pushup", "squat", "armcurl"}
UnknownModes == {"plank", ""}
ModeNames == KnownModes \cup UnknownModes

\* an _initialize_counter that falls back to the pull-up counter but leaves
\* the unknown name in place
_initialize_counter_keeps_name(m) ==
    [counter |-> IF m = "pushup" THEN NewPushUp
                 ELSE IF m = "squat" THEN NewSquat
                 ELSE IF m = "armcurl" THEN NewArmCurl
                 ELSE NewPullUp,
     mode |-> m]

\* _initialize_counter: the counter it constructs and the mode it leaves
\* (given the mode the caller has already stored)
_initialize_counter(m) ==
    CASE m \in {"chinup", "pullup"} -> [counter |-> NewPullUp, mode |-> m]
      [] m = "pushup"  -> [counter |-> NewPushUp, mode |-> m]
      [] m = "squat"   -> [counter |-> NewSquat, mode |-> m]
      [] m = "armcurl" -> [counter |-> NewArmCurl, mode |-> m]
      [] OTHER         -> [counter |-> NewPullUp, mode |-> "chinup"]

\* ExerciseCounter.get_status(): no counter variant overrides it
counter_get_status(c) == [count |-> c.count, frame_count |-> c.frame_count]

\* a get_status that hands back the counter's status as it is
get_status_without_mode(m, c) == counter_get_status(c)

\* WorkoutCounter.get_status(): the counter's status with the mode added
get_status(m, c) ==
    LET status == counter_get_status(c)
    IN  [k \in DOMAIN status \cup {"mode"} |-> IF k = "mode" THEN m ELSE status[k]]

\* the operation behind a state: its name, the frame or mode name it was
\* given, the count the session showed before it, and for analyze_angle the
\* (angle, confidence) pair handed to the counter in place of a frame
Op(name, f, m, before) ==
    [name |-> name, frame |-> f, new_mode |-> m, count_before |-> before,
     best |-> <<None, 0>>, legs |-> <<>>]
NoRet == Ret(0, None, "")

\* the WorkoutCounter object that WorkoutCounter(m) constructs
Session(m) ==
    LET i == _initialize_counter(m)
    IN  [mode |-> i.mode, counter |-> i.counter, frame_count |-> 0,
         calls |-> 0, op |-> Op("init", NoFrame, m, 0), ret |-> NoRet]

\* the first WorkoutCounter object
This ==
    [mode |-> mode, counter |-> counter, frame_count |-> frame_count,
     calls |-> calls, op |-> op, ret |-> ret]

\* WorkoutCounter(m1) is the first object, WorkoutCounter(m2) the second
ConstructTwo(m1, m2) ==
    /\ mode = Session(m1).mode
    /\ counter = Session(m1).counter
    /\ frame_count = Session(m1).frame_count
    /\ calls = Session(m1).calls
    /\ op = Session(m1).op
    /\ ret = Session(m1).ret
    /\ peer = Session(m2)
    /\ now = ClockStart

\* WorkoutCounter(mode); the second object is a default session nobody calls
Construct(m) == ConstructTwo(m, "chinup")

\* an update whose counter keeps its history in an attribute of the class,
\* which every counter of that class then shares
UpdateSharedHistory(f) ==
    LET c == [counter EXCEPT !.frame_count = @ + 1]
        r == analyze_pose(c, f, now)
        h == IF counter.kind = "pullup" THEN "position_history" ELSE "angle_history"
    IN  /\ counter' = r.c
        /\ frame_count' = c.frame_count
        /\ ret' = r.ret
        /\ calls' = calls + 1
        /\ op' = Op("update", f, "", counter.count)
        /\ peer' = IF peer.counter.kind = counter.kind
                   THEN [peer EXCEPT !.counter[h] = r.c[h]]
                   ELSE peer
        /\ UNCHANGED <<mode, now>>

\* WorkoutCounter.update(keypoints)
Update(f) ==
    LET c == [counter EXCEPT !.frame_count = @ + 1]
        r == analyze_pose(c, f, now)
    IN  /\ counter' = r.c
        /\ frame_count' = c.frame_count
        /\ ret' = r.ret
        /\ calls' = calls + 1
        /\ op' = Op("update", f, "", counter.count)
        /\ UNCHANGED <<mode, now, peer>>

\* counter.analyze_pose(keypoints), called on the counter itself
Analyze(f) ==
    LET r == analyze_pose(counter, f, now)
    IN  /\ counter' = r.c
        /\ ret' = r.ret
        /\ calls' = calls + 1
        /\ op' = Op("analyze", f, "", counter.count)
        /\ UNCHANGED <<mode, frame_count, now, peer>>

\* WorkoutCounter.reset()
Reset ==
    /\ counter' = reset(counter)
    /\ frame_count' = 0
    /\ calls' = 0
    /\ op' = Op("reset", NoFrame, "", counter.count)
    /\ ret' = NoRet
    /\ UNCHANGED <<mode, now, peer>>

\* a switch_mode that leaves the cumulative frame count alone
SwitchModeKeepsFrames(m) ==
    /\ IF m # mode
       THEN LET i == _initialize_counter(m)
            IN  /\ mode' = i.mode
                /\ counter' = i.counter
                /\ calls' = 0
                /\ UNCHANGED frame_count
       ELSE UNCHANGED <<mode, counter, frame_count, calls>>
    /\ op' = Op("switch_mode", NoFrame, m, counter.count)
    /\ ret' = NoRet
    /\ UNCHANGED <<now, peer>>

\* a switch_mode that reinitialises the counter whatever the new mode is
SwitchModeAlways(m) ==
    /\ LET i == _initialize_counter(m)
       IN  /\ mode' = i.mode
           /\ counter' = i.counter
           /\ frame_count' = 0
           /\ calls' = 0
    /\ op' = Op("switch_mode", NoFrame, m, counter.count)
    /\ ret' = NoRet
    /\ UNCHANGED <<now, peer>>

\* WorkoutCounter.switch_mode(new_mode)
SwitchMode(m) ==
    /\ IF m # mode
       THEN LET i == _initialize_counter(m)
            IN  /\ mode' = i.mode
                /\ counter' = i.counter
                /\ frame_count' = 0
                /\ calls' = 0
       ELSE UNCHANGED <<mode, counter, frame_count, calls>>
    /\ op' = Op("switch_mode", NoFrame, m, counter.count)
    /\ ret' = NoRet
    /\ UNCHANGED <<now, peer>>

\* WorkoutCounter.update(keypoints) called on the second object
UpdatePeer(f) ==
    LET c == [peer.counter EXCEPT !.frame_count = @ + 1]
        r == analyze_pose(c, f, now)
    IN  /\ peer' = [peer EXCEPT !.counter = r.c,
                                !.frame_count = c.frame_count,
                                !.ret = r.ret,
                                !.calls = @ + 1,
                                !.op = Op("update", f, "", peer.counter.count)]
        /\ UNCHANGED <<mode, counter, frame_count, calls, op, ret, now>>

\* WorkoutCounter.reset() called on the second object
ResetPeer ==
    /\ peer' = [peer EXCEPT !.counter = reset(peer.counter),
                            !.frame_count = 0,
                            !.calls = 0,
                            !.op = Op("reset", NoFrame, "", peer.counter.count),
                            !.ret = NoRet]
    /\ UNCHANGED <<mode, counter, frame_count, calls, op, ret, now>>

\* WorkoutCounter.switch_mode(new_mode) called on the second object
SwitchModePeer(m) ==
    /\ peer' = IF m # peer.mode
               THEN LET i == _initialize_counter(m)
                    IN  [peer EXCEPT !.mode = i.mode,
                                     !.counter = i.counter,
                                     !.frame_count = 0,
                                     !.calls = 0,
                                     !.op = Op("switch_mode", NoFrame, m, peer.counter.count),
                                     !.ret = NoRet]
               ELSE [peer EXCEPT !.op = Op("switch_mode", NoFrame, m, peer.counter.count),
                                 !.ret = NoRet]
    /\ UNCHANGED <<mode, counter, frame_count, calls, op, ret, now>>

\* config.supported_modes: the modes a request may name
supported_modes == {"chinup", "pushup", "squat", "armcurl"}

\* workout_sessions of main.py holds a session under "default"
HasSession == counter.kind # "none"

\* main.py before its first request: workout_sessions is empty
NoSession ==
    /\ mode = ""
    /\ counter = [kind |-> "none", count |-> 0, frame_count |-> 0]
    /\ frame_count = 0
    /\ calls = 0
    /\ op = Op("init", NoFrame, "", 0)
    /\ ret = NoRet
    /\ peer = Session("chinup")
    /\ now = ClockStart

\* round(x, 1) of an angle x held in 1/20 degree.  A multiple of 0.1 is
\* kept; x.x5 is a tie only when the float holds it exactly, which is so for
\* x.25 and x.75, and Python rounds a tie to the even digit: x.2 and x.8.
\* The angles the counters return are multiples of 0.25.
RoundOneDecimal(u) ==
    CASE u % 2 = 0   -> u
      [] u % 20 = 5  -> u - 1
      [] u % 20 = 15 -> u + 1

\* the request ends in HTTPException(status_code=500): no WorkoutState is
\* returned, so there is no repCount (-1), angle or position
Http500 == Ret(-1, None, "HTTPException 500")

\* the repCount, angle and position of the WorkoutState that analyze_frame
\* builds in mode m from what update returned for a pose f.  In chinup mode
\* the position is the label and the wrists and shoulders of the pose are
\* read: an empty array has none, the index raises and the request fails.
\* In the other modes the angle is rounded to one decimal and there is no
\* position.
WorkoutStateOf(m, f, r) ==
    IF m \in {"chinup", "pullup"}
    THEN IF DOMAIN f.kp = {}
         THEN Http500
         ELSE Ret(r.count, None, r.label)
    ELSE Ret(r.count,
             IF r.angle = None THEN None ELSE Some(RoundOneDecimal(r.angle[1])),
             "")

\* main.analyze_frame(file, mode) with the pose service returning f for the
\* image (NoFrame: detect_pose returns None).  A mode that is not supported
\* becomes "chinup"; the session is created on first use and replaced by a
\* new, reset one when its mode is not the request's; the session's
\* frame_count goes up by one, and update is called only with a pose.  ret
\* is the response: with no pose the session's count and neither angle nor
\* position.  A request that fails after update has run leaves the session
\* as update left it.
AnalyzeFrame(new_mode, f) ==
    LET m == IF new_mode \in supported_modes THEN new_mode ELSE "chinup"
        held == IF HasSession
                THEN [mode |-> mode, counter |-> counter,
                      frame_count |-> frame_count, calls |-> calls]
                ELSE [mode |-> Session(m).mode, counter |-> Session(m).counter,
                      frame_count |-> 0, calls |-> 0]
        s == IF held.mode # m
             THEN [mode |-> Session(m).mode, counter |-> reset(Session(m).counter),
                   frame_count |-> 0, calls |-> 0]
             ELSE held
        c == [s.counter EXCEPT !.frame_count = @ + 1]
        r == analyze_pose(c, f, now)
    IN  /\ mode' = s.mode
        /\ IF f = NoFrame
           THEN /\ counter' = s.counter
                /\ frame_count' = s.frame_count + 1
                /\ calls' = s.calls
                /\ ret' = Ret(s.counter.count, None, "")
           ELSE /\ counter' = r.c
                /\ frame_count' = c.frame_count
                /\ calls' = s.calls + 1
                /\ ret' = WorkoutStateOf(m, f, r.ret)
        /\ op' = Op("analyze_frame", f, new_mode, counter.count)
        /\ UNCHANGED <<now, peer>>

\* main.reset_session(mode): a new WorkoutCounter replaces the session
ResetSession(new_mode) ==
    LET m == IF new_mode \in supported_modes THEN new_mode ELSE "chinup"
    IN  /\ mode' = Session(m).mode
        /\ counter' = Session(m).counter
        /\ frame_count' = 0
        /\ calls' = 0
        /\ op' = Op("reset_session", NoFrame, new_mode, counter.count)
        /\ ret' = NoRet
        /\ UNCHANGED <<now, peer>>

\* analyze_pose of the push-up or arm-curl counter on a frame for which
\* get_best_arm_angle returns best = (angle, confidence)
AnalyzeAngle(best) ==
    LET r == IF counter.kind = "pushup"
             THEN push_analyze_best([counter EXCEPT !.frame_count = @ + 1], best)
             ELSE curl_analyze_best(counter, best)
    IN  /\ counter.kind \in {"pushup", "armcurl"}
        /\ counter' = r.c
        /\ ret' = r.ret
        /\ calls' = calls + 1
        /\ op' = [Op("analyze_angle", NoFrame, "", counter.count) EXCEPT !.best = best]
        /\ UNCHANGED <<mode, frame_count, now, peer>>

\* SquatCounter.analyze_pose on a frame whose knee angles (an angle or None)
\* and mean leg confidences are given, for knee angles that the frames built
\* by Pose do not produce
AnalyzeLegs(r_angle, l_angle, r_conf, l_conf) ==
    LET r == squat_analyze_best([counter EXCEPT !.frame_count = @ + 1],
                                best_leg_angle(r_angle, l_angle, r_conf, l_conf))
    IN  /\ counter.kind = "squat"
        /\ counter' = r.c
        /\ ret' = r.ret
        /\ calls' = calls + 1
        /\ op' = [Op("analyze_legs", NoFrame, "", counter.count)
                    EXCEPT !.legs = [r |-> [conf |-> r_conf, angle |-> r_angle],
                                     l |-> [conf |-> l_conf, angle |-> l_angle]]]
        /\ UNCHANGED <<mode, frame_count, now, peer>>

\* time passes between two calls.  The clock is read by the pull-up counter
\* alone, and before its first rep every reading passes the cooldown test
\* (last_rep_time is 0 and the clock an epoch time), so the exploration lets
\* time pass only once a rep has been counted.
Tick ==
    /\ counter.kind = "pullup"
    /\ counter.last_rep_time # 0
    /\ now < ClockStart + MaxTicks
    /\ now' = now + 1
    /\ op' = Op("tick", NoFrame, "", counter.count)
    /\ ret' = NoRet
    /\ UNCHANGED <<mode, counter, frame_count, calls, peer>>

\* a wait longer than the cooldown between two calls
Pause ==
    /\ counter.kind = "pullup"
    /\ now' = now + rep_cooldown + 1
    /\ op' = Op("pause", NoFrame, "", counter.count)
    /\ ret' = NoRet
    /\ UNCHANGED <<mode, counter, frame_count, calls, peer>>

-----------------------------------------------------------------------------
(* The frames explored *)

PushFrames ==
    {NoFrame, EmptyFrame,
     Sym(D90, D180, 20), Sym(D180, D180, 20),  \* every joint at 0.20
     Sym(D90, D180, 90), Sym(D135, D180, 90), Sym(D180, D180, 90),
     Pose(D180, D90, D180, D180, 85, 90),      \* both arms, confidences 0.05 apart
     Pose(D90, D180, D180, D180, 20, 90),      \* right arm below the floor
     Pose(DZero, D90, D180, D180, 90, 90)}     \* right wrist on the elbow

SquatFrames ==
    {NoFrame, EmptyFrame,
     Sym(D180, D90, 20), Sym(D180, D180, 20),  \* every joint at 0.20
     Sym(D180, D90, 90), Sym(D180, D135, 90), Sym(D180, D180, 90),
     Pose(D180, D180, D180, D135, 85, 90),     \* legs 45 degrees apart
     Pose(D180, D180, D90, D180, 20, 90),      \* right leg below the floor
     Pose(D180, D180, DZero, D90, 90, 90)}     \* right ankle on the knee

CurlFrames ==
    {NoFrame, EmptyFrame,
     Sym(D45, D180, 40), Sym(D180, D180, 40),  \* every joint at 0.40
     Sym(D45, D180, 90), Sym(D135, D180, 90), Sym(D180, D180, 50),
     Pose(D45, D180, D180, D180, 85, 90),      \* left arm more confident
     Pose(DZero, D45, D180, D180, 90, 60)}     \* right wrist on the elbow

\* wrists 0 or 20 pixels below the shoulders
PullFrames ==
    {NoFrame, EmptyFrame,
     Sym(D45, D180, 20), Sym(D180, D180, 20),  \* every joint at 0.20
     Sym(D45, D180, 90), Sym(D180, D180, 90),
     Pose(D180, D180, D180, D180, 20, 90)}     \* right shoulder and wrist below the floor

FramesFor(kind) ==
    CASE kind = "pushup"  -> PushFrames
      [] kind = "squat"   -> SquatFrames
      [] kind = "armcurl" -> CurlFrames
      [] kind = "pullup"  -> PullFrames

-----------------------------------------------------------------------------
\* calls explored on one counter instance
CallBound(kind) == IF kind = "pullup" THEN MaxCallsPull ELSE MaxCalls
DirectBound(kind) == IF kind = "pullup" THEN MaxCallsPull ELSE MaxCallsDirect

(* Spec: one WorkoutCounter session, constructed in any mode and driven    *)
(* through update, reset and switch_mode.  No rep is followed by a second  *)
(* one within these bounds, so the clock is left where it is; SpecPullDeep *)
(* lets time pass.                                                         *)

Init == \E m \in ModeNames : Construct(m)

Next ==
    \/ \E f \in FramesFor(counter.kind) : calls < CallBound(counter.kind) /\ Update(f)
    \/ Reset
    \/ \E m \in ModeNames : SwitchMode(m)

Spec == Init /\ [][Next]_vars

(* SpecDirect: one counter of any variant, driven through its own          *)
(* analyze_pose and reset (the session only holds it).                     *)

InitDirect == \E m \in KnownModes : Construct(m)

NextDirect ==
    \/ \E f \in FramesFor(counter.kind) : calls < DirectBound(counter.kind) /\ Analyze(f)
    \/ Reset

SpecDirect == InitDirect /\ [][NextDirect]_vars

(* SpecTwo: two WorkoutCounter sessions, each driven through update, reset *)
(* and switch_mode in any interleaving.                                    *)

TwoFrames(kind) ==
    CASE kind = "pushup"  -> {NoFrame, Sym(D90, D180, 90), Sym(D180, D180, 90)}
      [] kind = "squat"   -> {Sym(D180, D90, 90), Sym(D180, D180, 90)}
      [] kind = "armcurl" -> {Sym(D45, D180, 90), Sym(D180, D180, 40)}
      [] kind = "pullup"  -> {Sym(D45, D180, 90), Sym(D180, D180, 90)}

InitTwo == \E m1 \in KnownModes, m2 \in KnownModes : ConstructTwo(m1, m2)

NextTwo ==
    \/ \E f \in TwoFrames(counter.kind) : calls < MaxCallsTwo /\ Update(f)
    \/ Reset
    \/ \E m \in ModeNames : SwitchMode(m)
    \/ \E f \in TwoFrames(peer.counter.kind) : peer.calls < MaxCallsTwo /\ UpdatePeer(f)
    \/ ResetPeer
    \/ \E m \in ModeNames : SwitchModePeer(m)

SpecTwo == InitTwo /\ [][NextTwo]_vars

(* SpecService: the one session of main.py, created by the first request   *)
(* and driven through analyze_frame and reset_session.  The pose service   *)
(* finds no pose, an empty array, or a pose; in push-up mode one pose has  *)
(* the elbows at 90 and 135 degrees, which brings the smoothed angle to a  *)
(* quarter of a degree.                                                    *)

ServiceFrames(new_mode) ==
    LET kind == Session(IF new_mode \in supported_modes
                        THEN new_mode ELSE "chinup").counter.kind
    IN  {NoFrame, EmptyFrame} \cup TwoFrames(kind)
          \cup (IF kind = "pushup"
                THEN {Pose(D90, D135, D180, D180, 90, 90)}
                ELSE {})

InitService == NoSession

NextService ==
    \/ \E new_mode \in ModeNames : \E f \in ServiceFrames(new_mode) :
          /\ frame_count < MaxFramesSent
          /\ AnalyzeFrame(new_mode, f)
    \/ \E new_mode \in ModeNames : ResetSession(new_mode)

SpecService == InitService /\ [][NextService]_vars

(* SpecPullRange: a pull-up counter fed confident frames with the wrists   *)
(* 0, 10 or 20 pixels below the shoulders.                                 *)

PullRangeFrames == {Sym(D45, D180, 90), Sym(D90, D180, 90), Sym(D180, D180, 90)}

InitPullRange == Construct("chinup")

NextPullRange == \E f \in PullRangeFrames : calls < MaxCallsRange /\ Analyze(f)

SpecPullRange == InitPullRange /\ [][NextPullRange]_vars

(* SpecPullDeep: a pull-up counter fed confident frames with the wrists 0  *)
(* or 20 pixels below the shoulders, long enough for a second rep, while   *)
(* time passes.                                                            *)

PullDeepFrames == {Sym(D45, D180, 90), Sym(D180, D180, 90)}

InitPullDeep == Construct("pullup")

NextPullDeep ==
    \/ \E f \in PullDeepFrames : calls < MaxCallsDeep /\ Analyze(f)
    \/ Tick

SpecPullDeep == InitPullDeep /\ [][NextPullDeep]_vars

(* SpecSelect: a push-up, squat or arm-curl counter given a few plain      *)
(* frames and then one frame in which the two sides differ: in the angle   *)
(* of the limb (or a lower joint lying on the middle joint) and in         *)
(* confidence.                                                             *)

SelectDirs == {DZero, D90, D135, D180}

\* <<right, left>> joint confidences in percent: below every floor, between
\* the floors, 0.05 apart and 0.3 apart
SelectConfs ==
    {<<20, 20>>, <<20, 90>>, <<90, 20>>, <<40, 90>>, <<90, 40>>,
     <<85, 90>>, <<90, 85>>, <<60, 90>>, <<90, 60>>, <<90, 90>>}

SelectFrames(kind) ==
    IF kind = "squat"
    THEN {Pose(D180, D180, r, l, c[1], c[2]) : r \in SelectDirs, l \in SelectDirs, c \in SelectConfs}
    ELSE {Pose(r, l, D180, D180, c[1], c[2]) : r \in SelectDirs, l \in SelectDirs, c \in SelectConfs}

InitSelect == \E m \in {"pushup", "squat", "armcurl"} : Construct(m)

NextSelect ==
    /\ calls < MaxCallsSelect
    /\ \E f \in IF calls < MaxCallsSelect - 1
                THEN TwoFrames(counter.kind)
                ELSE SelectFrames(counter.kind) : Analyze(f)

SpecSelect == InitSelect /\ [][NextSelect]_vars

(* SpecLegs: a squat counter given a few plain frames and then one frame   *)
(* described by its two knee angles and mean leg confidences: angles 1,    *)
(* 29, 30 and more degrees apart, or missing, with confidences on either   *)
(* side of the floor, 0.05 apart and 0.3 apart.                            *)

LegAngles ==
    {None, Some(AngleU(90)), Some(AngleU(150)), Some(AngleU(151)), Some(AngleU(180))}

\* <<right, left>> mean leg confidences
LegConfs ==
    {<<ConfU(20), ConfU(20)>>, <<ConfU(20), ConfU(90)>>, <<ConfU(90), ConfU(20)>>,
     <<ConfU(85), ConfU(90)>>, <<ConfU(90), ConfU(85)>>, <<ConfU(60), ConfU(90)>>,
     <<ConfU(90), ConfU(60)>>, <<ConfU(90), ConfU(90)>>}

InitLegs == Construct("squat")

NextLegs ==
    /\ calls < MaxCallsLegs
    /\ IF calls < MaxCallsLegs - 1
       THEN \E f \in TwoFrames("squat") : Analyze(f)
       ELSE \E r_angle \in LegAngles, l_angle \in LegAngles, c \in LegConfs :
                AnalyzeLegs(r_angle, l_angle, c[1], c[2])

SpecLegs == InitLegs /\ [][NextLegs]_vars

(* SpecPullStep: a pull-up counter fed confident frames with the wrists 0, *)
(* 4 or 9 pixels below the shoulders, so that the movement over 5 samples  *)
(* falls on, just above and well above the movement threshold.             *)

\* a confident frame with both wrists dy pixels below the shoulders
Hang(dy) ==
    Array([Sym(D180, D180, 90).kp EXCEPT ![L_WRIST] = <<200, 100 + dy, 90>>,
                                         ![R_WRIST] = <<100, 100 + dy, 90>>])

PullStepFrames == {Hang(0), Hang(4), Hang(9)}

InitPullStep == Construct("pullup")

NextPullStep == \E f \in PullStepFrames : calls < MaxCallsStep /\ Analyze(f)

SpecPullStep == InitPullStep /\ [][NextPullStep]_vars

(* SpecPullLate: a pull-up counter fed confident frames with the wrists 0 *)
(* or 20 pixels below the shoulders.  The first BurstLen frames arrive     *)
(* within one clock reading: the displacements of FirstRep, which end in   *)
(* the first rep, and then free ones, through which the cooldown holds     *)
(* every further rep back.  Each later frame arrives after a wait longer   *)
(* than the cooldown, so the clock reading of a frame tells which frame    *)
(* it is.                                                                  *)

FirstRep == <<20, 20, 20, 0, 0, 0, 0, 20, 20, 20>>

InitPullLate == Construct("pullup")

NextPullLate ==
    \/ /\ calls < Len(FirstRep)
       /\ Analyze(Hang(FirstRep[calls + 1]))
    \/ \E dy \in {0, 20} :
          /\ calls >= Len(FirstRep)
          /\ calls < BurstLen
          /\ Analyze(Hang(dy))
    \/ /\ calls >= BurstLen
       /\ calls < MaxCallsLate
       /\ op.name = "analyze"
       /\ Pause
    \/ \E dy \in {0, 20} :
          /\ op.name = "pause"
          /\ Analyze(Hang(dy))

SpecPullLate == InitPullLate /\ [][NextPullLate]_vars


(* SpecDwellGap: a push-up or squat counter taken DOWN on its second frame *)
(* by the two frames of GoDown, then fed any frame of its exercise,        *)
(* rejected ones included.                                                 *)

GoDown(kind) ==
    IF kind = "pushup"
    THEN <<Sym(D45, D180, 90), Sym(D135, D180, 90)>>   \* smoothed to 90
    ELSE <<Sym(D180, D90, 90), Sym(D180, D180, 90)>>   \* smoothed to 135

InitDwellGap == \E m \in {"pushup", "squat"} : Construct(m)

NextDwellGap ==
    \/ /\ calls < Len(GoDown(counter.kind))
       /\ Analyze(GoDown(counter.kind)[calls + 1])
    \/ \E f \in FramesFor(counter.kind) :
          /\ calls >= Len(GoDown(counter.kind))
          /\ calls < MaxCallsGap
          /\ Analyze(f)

SpecDwellGap == InitDwellGap /\ [][NextDwellGap]_vars


(* SpecPushSeq: a fresh push-up counter fed the working angles 170, 170,   *)
(* 170, 100, 100, 100, 170, 170, 170, one per frame, at any confidence a   *)
(* valid sample can have.  SpecCurlSeq: a fresh arm-curl counter fed five  *)
(* samples of 80 degrees, then five of 130.                                *)

PushSequence == <<170, 170, 170, 100, 100, 100, 170, 170, 170>>
CurlSequence == <<80, 80, 80, 80, 80, 130, 130, 130, 130, 130>>

\* the confidences from floor to 1.00 in steps of 0.05
ValidConfidences(floor) == {ConfU(p) : p \in {q \in floor..100 : q % 5 = 0}}

InitPushSeq == Construct("pushup")

NextPushSeq ==
    \E conf \in ValidConfidences(MIN_CONFIDENCE) :
        /\ calls < Len(PushSequence)
        /\ AnalyzeAngle(<<Some(AngleU(PushSequence[calls + 1])), conf>>)

SpecPushSeq == InitPushSeq /\ [][NextPushSeq]_vars

InitCurlSeq == Construct("armcurl")

NextCurlSeq ==
    \E conf \in ValidConfidences(armcurl_min_confidence) :
        /\ calls < Len(CurlSequence)
        /\ AnalyzeAngle(<<Some(AngleU(CurlSequence[calls + 1])), conf>>)

SpecCurlSeq == InitCurlSeq /\ [][NextCurlSeq]_vars

-----------------------------------------------------------------------------
(* Properties *)

IsFrameOp(o) == o.name \in {"analyze", "update"}

\* C1: for each of the four counters and any sequence of analyze calls on
\* valid, low-confidence and no-person frames, count never decreases and
\* grows by at most 1 per call; only reset() lowers it, and it leaves 0.
C1_CountMonotone ==
    [][/\ op'.name = "analyze"
          => counter'.count \in {counter.count, counter.count + 1}
       /\ op'.name = "reset" => counter'.count = 0
       /\ counter'.count < counter.count => op'.name = "reset"]_vars

\* a reset that lowered a pull-up counter's count (SpecDirect)
C1_Witness ==
    /\ op.name = "reset"
    /\ op.count_before = 1
    /\ counter.kind = "pullup"
    /\ counter.count = 0

\* C2: the push-up counter fed 170, 170, 170, 100, 100, 100, 170, 170, 170
\* ends with count 1; it is not DOWN before frame 4; and the count goes from
\* 0 to 1 on frame 8, the first frame whose smoothed angle exceeds 135 after
\* the smoothed angle has been below 105 (frames 5 and 6).
C2_PushSequence ==
    /\ counter.count = (IF calls >= 8 THEN 1 ELSE 0)
    /\ counter.state = "down" => calls >= 4
    /\ calls \in 1..4 => ret.angle[1] >= AngleU(DOWN_ANGLE_THRESHOLD)
    /\ calls \in 5..6 => ret.angle[1] < AngleU(DOWN_ANGLE_THRESHOLD)
    /\ calls = 7 => ret.angle[1] <= AngleU(UP_ANGLE_THRESHOLD)
    /\ calls = 8 => /\ ret.angle[1] > AngleU(UP_ANGLE_THRESHOLD)
                    /\ op.count_before = 0
                    /\ counter.state = "up"

\* the ninth sample has been analysed and the count is 1
C2_Witness ==
    /\ calls = Len(PushSequence)
    /\ op.name = "analyze_angle"
    /\ counter.count = 1

\* C3: the arm-curl counter fed five samples of 80 degrees and five of 130
\* shows count 0 after each of the first nine and 1 after the tenth.
C3_CurlSequence ==
    counter.count = (IF calls = Len(CurlSequence) THEN 1 ELSE 0)

\* the tenth sample has been analysed and the count is 1
C3_Witness ==
    /\ calls = Len(CurlSequence)
    /\ op.name = "analyze_angle"
    /\ op.count_before = 0
    /\ counter.count = 1

\* the change log once a frame's direction has been detected: the log before
\* the frame, with an entry for the newly confirmed direction when the
\* confirmed direction changed (c before the frame, d after it)
LogAfterDetect(c, d, t, f) ==
    IF d.current_direction # c.current_direction
    THEN Append(c.direction_history,
                <<d.current_direction, t, wrist_shoulder_diff(f.kp)>>)
    ELSE c.direction_history

\* the two newest entries of a change log are DOWN then UP
EndsDownUp(log) ==
    /\ Len(log) >= 2
    /\ log[Len(log) - 1][1] = "down"
    /\ log[Len(log)][1] = "up"

\* the distance between the displacements of the two newest entries
RangeOfLast(log) == Abs(log[Len(log)][3] - log[Len(log) - 1][3])

\* C4: when DOWN then UP are the two newest change-log entries, their
\* displacements differ by more than min_movement_range and more than
\* rep_cooldown has passed since the last rep, count increases by exactly 1
\* and the log is emptied; count changes on no other frame, so it does not
\* increase again before a new DOWN and a new UP have been logged, and an
\* entry is logged only when the confirmed direction changes.
C4_OneRepPerCycle ==
    [][op'.name = "analyze" =>
         LET log == LogAfterDetect(counter, counter', now, op'.frame)
             due == /\ EndsDownUp(log)
                    /\ RangeOfLast(log) > min_movement_range
                    /\ now - counter.last_rep_time > rep_cooldown
         IN  /\ due => /\ counter'.count = counter.count + 1
                       /\ counter'.direction_history = <<>>
             /\ ~due => /\ counter'.count = counter.count
                        /\ counter'.direction_history = LastN(log, DIRECTION_MAXLEN)]_vars

\* a second rep has just been counted
C4_Witness ==
    /\ op.name = "analyze"
    /\ op.count_before = 1
    /\ counter.count = 2
    /\ counter.direction_history = <<>>

\* C5: while DOWN then UP are the two newest change-log entries and their
\* displacements differ by at most min_movement_range, no frame increases
\* count: not the one that confirms UP, and none after it.
C5_SmallRangeNoRep ==
    [][op'.name = "analyze" =>
         LET log == LogAfterDetect(counter, counter', now, op'.frame)
         IN  (EndsDownUp(log) /\ RangeOfLast(log) <= min_movement_range)
               => counter'.count = counter.count]_vars

\* a frame after the one that confirmed UP (a fourth consecutive UP frame),
\* the DOWN-UP pair 10 pixels apart still the newest entries
C5_Witness ==
    /\ op.name = "analyze"
    /\ EndsDownUp(counter.direction_history)
    /\ RangeOfLast(counter.direction_history) = 10
    /\ counter.consecutive_up_frames = 8
    /\ counter.count = 0

\* C6: count does not increase on a frame where at most rep_cooldown has
\* passed since the last rep; every increment stamps the rep time, so two
\* increments are more than rep_cooldown apart.
C6_Cooldown ==
    [][counter'.count > counter.count
         => /\ now' - counter.last_rep_time > rep_cooldown
            /\ counter'.last_rep_time = now']_vars

\* a complete cycle held back: exactly rep_cooldown after the first rep, DOWN
\* then UP are logged 20 pixels apart and the count is still 1
C6_Witness ==
    /\ op.name = "analyze"
    /\ counter.count = 1
    /\ EndsDownUp(counter.direction_history)
    /\ RangeOfLast(counter.direction_history) > min_movement_range
    /\ now - counter.last_rep_time = rep_cooldown

\* a counter as its constructor leaves it
IsFresh(c) ==
    /\ c.count = 0
    /\ c.frame_count = 0
    /\ c.kind \in {"pushup", "squat"} =>
          /\ c.state = "up"
          /\ c.went_down = FALSE
          /\ c.last_state_change = 0
          /\ c.angle_history = <<>>
    /\ c.kind = "armcurl" => c.state = "down" /\ c.angle_history = <<>>
    /\ c.kind = "pullup" =>
          /\ c.position = "neutral"
          /\ c.position_history = <<>>
          /\ c.direction_history = <<>>
          /\ c.current_direction = "stable"
          /\ c.consecutive_up_frames = 0
          /\ c.consecutive_down_frames = 0
          /\ c.last_rep_time = 0

\* the counter variant a mode name selects
KindOfMode(m) ==
    IF m \in {"pushup", "squat", "armcurl"} THEN m ELSE "pullup"

\* C7: switch_mode(new_mode) with new_mode different from the current mode
\* leaves count 0, the cumulative frame count 0 and a fresh counter of the
\* new mode's variant in its initial state.
C7_SwitchFresh ==
    [][(op'.name = "switch_mode" /\ op'.new_mode # mode)
         => /\ counter'.count = 0
            /\ frame_count' = 0
            /\ counter'.kind = KindOfMode(op'.new_mode)
            /\ IsFresh(counter')]_vars

\* a switch to another exercise from a session that had counted a rep and
\* processed frames
C7_Witness ==
    /\ op.name = "switch_mode"
    /\ op.new_mode = "squat"
    /\ op.count_before = 2
    /\ counter.kind = "squat"
    /\ counter.count = 0
    /\ frame_count = 0

\* the confidence floor of each exercise, in percent
FloorOf(kind) ==
    CASE kind = "pushup"  -> MIN_CONFIDENCE
      [] kind = "squat"   -> squat_min_confidence
      [] kind = "armcurl" -> armcurl_min_confidence
      [] kind = "pullup"  -> min_confidence

\* everything a counter holds but its frame counter
Core(c) == [k \in DOMAIN c \ {"frame_count"} |-> c[k]]

\* C8: a frame whose joint confidences are all below the exercise's floor
\* leaves the counter's phase, flags, count and windows unchanged, whatever
\* the joint positions.
C8_LowConfidenceInert ==
    [][(IsFrameOp(op') /\ ~IsAbsent(op'.frame)
        /\ AllConfBelow(op'.frame, FloorOf(counter.kind)))
         => Core(counter') = Core(counter)]_vars

\* an arm-curl counter in the curled phase, its window full, given a frame of
\* extended arms with every joint at 0.40
C8_Witness ==
    /\ op.name = "update"
    /\ op.frame = Sym(D180, D180, 40)
    /\ counter.kind = "armcurl"
    /\ counter.state = "up"
    /\ Len(counter.angle_history) = ARMCURL_MAXLEN

\* C9: PullUpCounter.analyze_pose on an absent or empty frame returns
\* (count, "no_person") and leaves every field of the counter unchanged.
C9_NoPersonInert ==
    [][(op'.name = "analyze" /\ counter.kind = "pullup" /\ IsAbsent(op'.frame))
         => /\ counter' = counter
            /\ ret' = Ret(counter.count, None, "no_person")]_vars

\* an empty frame given to a pull-up counter that is moving up
C9_Witness ==
    /\ op.name = "analyze"
    /\ op.frame = EmptyFrame
    /\ counter.kind = "pullup"
    /\ counter.consecutive_up_frames > 0
    /\ ret.label = "no_person"

\* C10: constructing a WorkoutCounter with, or switching to, a mode name
\* outside {chinup, pullup, pushup, squat, armcurl} leaves the pull-up
\* counter active and the mode reading "chinup".
C10_UnknownModeFallback ==
    (op.name \in {"init", "switch_mode"} /\ op.new_mode \notin KnownModes)
      => /\ mode = "chinup"
         /\ counter.kind = "pullup"
         /\ IsFresh(counter)

\* a switch to an unknown mode from a session that had counted a rep
C10_Witness ==
    /\ op.name = "switch_mode"
    /\ op.new_mode = "plank"
    /\ op.count_before = 1
    /\ mode = "chinup"

\* C11: after n calls to update since construction, the last reset() or the
\* last mode switch, the frame_count that get_status() reports is n, in every
\* exercise mode.
C11_StatusFrameCount ==
    get_status(mode, counter).frame_count = calls

\* the counters with a minimum dwell between state transitions
HasDwell(c) == c.kind \in {"pushup", "squat"}

\* the counter changed state on the most recent frame it was given
ChangedOnLastFrame(c) == c.frame_count > 0 /\ c.last_state_change = c.frame_count

\* C12: for push-up and squat driven through WorkoutCounter.update, one call
\* per frame, a frame that directly follows a frame with a state transition
\* makes no state transition.
C12_DwellThroughUpdate ==
    [][(op'.name = "update" /\ HasDwell(counter) /\ ChangedOnLastFrame(counter))
         => counter'.state = counter.state]_vars

\* C13: after WorkoutCounter.reset() the count and the cumulative frame count
\* are 0, the mode is unchanged, and the session is in the state of a freshly
\* constructed WorkoutCounter of the same mode; what update returns is a
\* function of that state, the frame and the clock, so the two sessions
\* return the same results for every later frame sequence.
C13_ResetAsFresh ==
    [][op'.name = "reset"
         => /\ counter'.count = 0
            /\ frame_count' = 0
            /\ mode' = mode
            /\ mode' = _initialize_counter(mode).mode
            /\ counter' = _initialize_counter(mode).counter]_vars

\* a reset of a squat session that had counted a rep
C13_Witness ==
    /\ op.name = "reset"
    /\ op.count_before = 1
    /\ counter.kind = "squat"
    /\ counter.count = 0
    /\ frame_count = 0

\* C14 as stated: get_status() returns a snapshot with the keys count,
\* frame_count, mode and state, whose count is the active counter's count and
\* whose mode is the session's mode.
C14_StatusWithState ==
    LET status == get_status(mode, counter)
    IN  /\ {"count", "frame_count", "mode", "state"} \subseteq DOMAIN status
        /\ status.count = counter.count
        /\ status.mode = mode

\* C14, amended: get_status() returns a snapshot with exactly the keys count,
\* frame_count and mode, whose count is the active counter's count and whose
\* mode is the session's mode.
C14_StatusSnapshot ==
    LET status == get_status(mode, counter)
    IN  /\ DOMAIN status = {"count", "frame_count", "mode"}
        /\ status.count = counter.count
        /\ status.mode = mode

\* the status of a squat session that has counted a rep
C14_Witness ==
    /\ mode = "squat"
    /\ counter.count = 1
    /\ get_status(mode, counter).count = 1
    /\ get_status(mode, counter).mode = "squat"

\* C15: with two WorkoutCounter sessions driven by any interleaving of update,
\* reset and switch_mode, a call on one session leaves the other session's
\* count, mode, counter state and frame count as they were; a session's
\* results are a function of its own state, the frame and the clock, so they
\* are those it produces when run alone.
C15_SessionsIsolated ==
    [][\/ peer' = peer
       \/ This' = This]_vars

\* a squat session is updated for the first time while the other session, a
\* squat session as well, holds a rep counted by its own updates
C15_Witness ==
    /\ op.name = "update"
    /\ calls = 1
    /\ counter.count = 0
    /\ peer.calls = 3
    /\ counter.kind = "squat"
    /\ Len(counter.angle_history) = 1
    /\ peer.counter.kind = "squat"
    /\ peer.counter.count = 1
    /\ peer.op.name = "update"

\* the two thresholds of a push-up or squat counter, in angle units
DownThresholdOf(kind) ==
    IF kind = "pushup" THEN AngleU(DOWN_ANGLE_THRESHOLD) ELSE AngleU(squat_down_threshold)
UpThresholdOf(kind) ==
    IF kind = "pushup" THEN AngleU(UP_ANGLE_THRESHOLD) ELSE AngleU(squat_up_threshold)

\* C16: push-up and squat change state UP->DOWN only on a frame whose
\* smoothed angle is below the down threshold and DOWN->UP only on a frame
\* whose smoothed angle is above the up threshold; a frame whose smoothed
\* angle lies between the two thresholds, ends included, changes neither the
\* state nor went_down nor the count.
C16_ThresholdTransitions ==
    [][(IsFrameOp(op') /\ HasDwell(counter))
         => /\ (counter.state = "up" /\ counter'.state = "down")
                 => /\ ret'.angle # None
                    /\ ret'.angle[1] < DownThresholdOf(counter.kind)
            /\ (counter.state = "down" /\ counter'.state = "up")
                 => /\ ret'.angle # None
                    /\ ret'.angle[1] > UpThresholdOf(counter.kind)
            /\ (/\ ret'.angle # None
                /\ ret'.angle[1] >= DownThresholdOf(counter.kind)
                /\ ret'.angle[1] <= UpThresholdOf(counter.kind))
                 => /\ counter'.state = counter.state
                    /\ counter'.went_down = counter.went_down
                    /\ counter'.count = counter.count]_vars

\* a squat counter that has gone down is given a frame whose smoothed angle,
\* 157.5 degrees, lies between the thresholds
C16_Witness ==
    /\ IsFrameOp(op)
    /\ counter.kind = "squat"
    /\ counter.state = "down"
    /\ counter.went_down
    /\ ret.angle = Some(AngleU(315) \div 2)

\* C17: in push-up and squat the count changes only on a frame where the
\* state changes DOWN->UP, and then by exactly 1: a frame without a state
\* transition and a frame with an UP->DOWN transition leave the count alone.
C17_CountOnlyOnRise ==
    [][(IsFrameOp(op') /\ HasDwell(counter) /\ counter'.count # counter.count)
         => /\ counter.state = "down"
            /\ counter'.state = "up"
            /\ counter'.count = counter.count + 1]_vars

\* a push-up counter that has just counted its second rep on a DOWN->UP frame
C17_Witness ==
    /\ IsFrameOp(op)
    /\ counter.kind = "pushup"
    /\ counter.state = "up"
    /\ op.count_before = 1
    /\ counter.count = 2
    /\ ChangedOnLastFrame(counter)

\* C18: with analyze_pose of a push-up or squat counter called directly once
\* per frame, the first frame after construction or reset makes no state
\* transition, and the frame after a frame with a state transition makes
\* none either: after a transition on frame k the next comes on frame k+2 at
\* the earliest.
C18_DwellDirect ==
    [][(op'.name = "analyze" /\ HasDwell(counter))
         => /\ counter.frame_count = 0 => counter'.state = counter.state
            /\ ChangedOnLastFrame(counter) => counter'.state = counter.state]_vars

\* a push-up counter that went down on frame 2 and came up, counting, on
\* frame 4
C18_Witness ==
    /\ op.name = "analyze"
    /\ counter.kind = "pushup"
    /\ counter.frame_count = 4
    /\ counter.last_state_change = 4
    /\ counter.state = "up"
    /\ counter.count = 1

\* C19: in arm-curl, on a frame accepted with the window holding 5 samples,
\* the state changes DOWN->UP exactly when the state is DOWN and the
\* 5-sample mean is below 90, and UP->DOWN exactly when the state is UP and
\* the mean is above 120; no other frame changes the state; the count grows
\* by exactly 1 on every UP->DOWN transition and changes on no other frame.
C19_CurlTransitions ==
    [][(IsFrameOp(op') /\ counter.kind = "armcurl")
         => LET full == /\ ret'.angle # None
                        /\ Len(counter'.angle_history) = ARMCURL_MAXLEN
                mean == Mean(counter'.angle_history)
                rises == counter.state = "down" /\ counter'.state = "up"
                falls == counter.state = "up" /\ counter'.state = "down"
            IN  /\ rises <=> (/\ full
                              /\ counter.state = "down"
                              /\ mean < AngleU(armcurl_up_threshold))
                /\ falls <=> (/\ full
                              /\ counter.state = "up"
                              /\ mean > AngleU(armcurl_down_threshold))
                /\ counter'.count = counter.count + (IF falls THEN 1 ELSE 0)]_vars

\* an arm-curl counter that has just counted its first rep on an UP->DOWN frame
C19_Witness ==
    /\ IsFrameOp(op)
    /\ counter.kind = "armcurl"
    /\ counter.state = "down"
    /\ op.count_before = 0
    /\ counter.count = 1

\* an arm-curl frame was accepted (its angle appended) and the window still
\* holds fewer than 5 samples
AcceptedWhileFilling(c, d) ==
    /\ c.kind = "armcurl"
    /\ Len(d.angle_history) = Len(c.angle_history) + 1
    /\ Len(d.angle_history) < ARMCURL_MAXLEN

\* C20 as stated: on a valid arm-curl frame accepted while the window holds
\* fewer than 5 samples, analyze reports the count and no angle value, and
\* updates neither state nor count.
C20_PendingWhileFilling ==
    [][(IsFrameOp(op') /\ AcceptedWhileFilling(counter, counter'))
         => /\ ret'.count = counter.count
            /\ ret'.angle = None
            /\ counter'.state = counter.state
            /\ counter'.count = counter.count]_vars

\* C20, amended: on a valid arm-curl frame accepted while the window holds
\* fewer than 5 samples, analyze reports the count and the frame's own
\* working angle, unsmoothed, and updates neither state nor count.
C20_RawWhileFilling ==
    [][(IsFrameOp(op') /\ AcceptedWhileFilling(counter, counter'))
         => /\ ret'.count = counter.count
            /\ ret'.angle # None
            /\ ret'.angle = curl_get_best_arm_angle(op'.frame.kp)[1]
            /\ counter'.angle_history = Append(counter.angle_history, ret'.angle[1])
            /\ counter'.state = counter.state
            /\ counter'.count = counter.count]_vars

\* the third sample of an arm-curl counter, a frame of arms at 135 degrees
\* after two frames at 45
C20_Witness ==
    /\ op.name = "analyze"
    /\ counter.kind = "armcurl"
    /\ counter.angle_history = <<AngleU(45), AngleU(45), AngleU(135)>>
    /\ ret.angle = Some(AngleU(135))

\* what the angle exercise's selection returns for a frame: <<angle or None,
\* confidence>>, and <<None, 0>> when nobody is in the frame
WorkingOf(kind, f) ==
    IF IsAbsent(f) THEN <<None, 0>>
    ELSE CASE kind = "pushup"  -> push_get_best_arm_angle(f.kp)
           [] kind = "squat"   -> get_best_leg_angle(f.kp)
           [] kind = "armcurl" -> curl_get_best_arm_angle(f.kp)

\* the frame yields a working angle at or above the exercise's floor
Accepts(kind, f) ==
    /\ WorkingOf(kind, f)[1] # None
    /\ WorkingOf(kind, f)[2] >= ConfU(FloorOf(kind))

\* C21: in arm-curl the number of samples held grows by one per accepted
\* frame from 0 at construction or reset; while it is below 5 neither state
\* nor count changes; from the 5th accepted sample on, every accepted frame
\* runs the state machine against the arithmetic mean of the 5 most recent
\* accepted samples, and that mean is what the call reports.
C21_CurlWarmup ==
    [][(op'.name = "analyze" /\ counter.kind = "armcurl")
         => LET n == Len(counter.angle_history)
                a == WorkingOf("armcurl", op'.frame)[1]
                five == LastN(Append(counter.angle_history, a[1]), 5)
                mean == SumSeq(five) \div 5
            IN  /\ ~Accepts("armcurl", op'.frame) => counter' = counter
                /\ (Accepts("armcurl", op'.frame) /\ n < 4)
                     => /\ Len(counter'.angle_history) = n + 1
                        /\ counter'.state = counter.state
                        /\ counter'.count = counter.count
                /\ (Accepts("armcurl", op'.frame) /\ n >= 4)
                     => /\ counter'.angle_history = five
                        /\ ret'.angle = Some(mean)
                        /\ counter'.state =
                             IF counter.state = "down" /\ mean < AngleU(90) THEN "up"
                             ELSE IF counter.state = "up" /\ mean > AngleU(120) THEN "down"
                             ELSE counter.state
                        /\ counter'.count =
                             IF counter.state = "up" /\ mean > AngleU(120)
                             THEN counter.count + 1
                             ELSE counter.count]_vars

\* the fifth sample since construction brings the mean to 63 degrees and the
\* counter, until then in its initial state, goes up
C21_Witness ==
    /\ op.name = "analyze"
    /\ counter.kind = "armcurl"
    /\ calls = 5
    /\ counter.angle_history =
         <<AngleU(135), AngleU(45), AngleU(45), AngleU(45), AngleU(45)>>
    /\ ret.angle = Some(AngleU(63))
    /\ counter.state = "up"


\* the two sides of an arm exercise's frame: mean confidence and elbow angle
RightArm(kp) ==
    [conf |-> MeanConf(kp, R_SHOULDER, R_ELBOW, R_WRIST),
     angle |-> calculate_angle(kp[R_SHOULDER], kp[R_ELBOW], kp[R_WRIST])]
LeftArm(kp) ==
    [conf |-> MeanConf(kp, L_SHOULDER, L_ELBOW, L_WRIST),
     angle |-> calculate_angle(kp[L_SHOULDER], kp[L_ELBOW], kp[L_WRIST])]

\* C22: in push-up a side is valid iff its mean joint confidence is >= 0.3
\* and its angle is not None.  With both sides valid and confidences less
\* than 0.1 apart the working angle is the average of the two angles, with
\* both valid otherwise the angle of the more confident side, with one side
\* valid that side's angle; with no side valid analyze returns (count, None)
\* and updates neither state nor window.
C22_PushSelection ==
    [][(op'.name = "analyze" /\ counter.kind = "pushup" /\ ~IsAbsent(op'.frame))
         => LET r == RightArm(op'.frame.kp)
                l == LeftArm(op'.frame.kp)
                r_valid == r.conf >= ConfU(30) /\ r.angle # None
                l_valid == l.conf >= ConfU(30) /\ l.angle # None
                working ==
                    IF r_valid /\ l_valid
                    THEN IF Abs(r.conf - l.conf) < ConfU(10)
                         THEN (r.angle[1] + l.angle[1]) \div 2
                         ELSE IF r.conf > l.conf THEN r.angle[1] ELSE l.angle[1]
                    ELSE IF r_valid THEN r.angle[1] ELSE l.angle[1]
            IN  IF r_valid \/ l_valid
                THEN /\ counter'.angle_history # <<>>
                     /\ counter'.angle_history[Len(counter'.angle_history)] = working
                     /\ Len(counter'.angle_history) =
                          IF Len(counter.angle_history) < 3
                          THEN Len(counter.angle_history) + 1 ELSE 3
                ELSE /\ ret' = Ret(counter.count, None, "")
                     /\ Core(counter') = Core(counter)]_vars

\* a push-up frame with the right arm at 90 degrees and the left at 180, the
\* confidences 0.05 apart: the working angle is 135
C22_Witness ==
    /\ op.name = "analyze"
    /\ counter.kind = "pushup"
    /\ op.frame = Pose(D90, D180, D180, D180, 85, 90)
    /\ counter.angle_history # <<>>
    /\ counter.angle_history[Len(counter.angle_history)] = AngleU(135)


\* the two legs of a squat frame: mean confidence and knee angle
RightLeg(kp) ==
    [conf |-> MeanConf(kp, R_HIP, R_KNEE, R_ANKLE),
     angle |-> calculate_angle(kp[R_HIP], kp[R_KNEE], kp[R_ANKLE])]
LeftLeg(kp) ==
    [conf |-> MeanConf(kp, L_HIP, L_KNEE, L_ANKLE),
     angle |-> calculate_angle(kp[L_HIP], kp[L_KNEE], kp[L_ANKLE])]

\* a leg or arm with confidence at or above the floor and an angle
ValidSide(side, floor) == side.conf >= ConfU(floor) /\ side.angle # None

\* the sample the call has just put in the window is v
NewestSampleIs(c, v) ==
    /\ c.angle_history # <<>>
    /\ c.angle_history[Len(c.angle_history)] = v

\* the two legs of the squat call: taken from the frame, or as given
LegsOf(o) ==
    IF o.name = "analyze_legs"
    THEN o.legs
    ELSE [r |-> RightLeg(o.frame.kp), l |-> LeftLeg(o.frame.kp)]

\* a squat analyze_pose on a frame that holds a person
SquatCall(o) ==
    \/ o.name = "analyze_legs"
    \/ o.name = "analyze" /\ ~IsAbsent(o.frame)

\* C23 as stated: in squat, when both legs are valid, the working angle is
\* the average of the two knee angles if and only if the two confidences
\* differ by less than 0.1, and otherwise the angle of the more confident leg.
C23_SquatAverageByConfidence ==
    [][(counter.kind = "squat" /\ SquatCall(op'))
         => LET r == LegsOf(op').r
                l == LegsOf(op').l
            IN  (ValidSide(r, 30) /\ ValidSide(l, 30))
                  => NewestSampleIs(counter',
                         IF Abs(r.conf - l.conf) < ConfU(10)
                         THEN (r.angle[1] + l.angle[1]) \div 2
                         ELSE IF r.conf >= l.conf THEN r.angle[1] ELSE l.angle[1])]_vars

\* C23, amended: in squat, when both legs are valid, the working angle is
\* the average of the two knee angles if and only if the two angles differ
\* by less than 30 degrees, and otherwise the angle of the more confident
\* leg (the right leg when the confidences are equal).
C23_SquatAverageBySync ==
    [][(counter.kind = "squat" /\ SquatCall(op'))
         => LET r == LegsOf(op').r
                l == LegsOf(op').l
            IN  (ValidSide(r, 30) /\ ValidSide(l, 30))
                  => NewestSampleIs(counter',
                         IF Abs(r.angle[1] - l.angle[1]) < AngleU(30)
                         THEN (r.angle[1] + l.angle[1]) \div 2
                         ELSE IF r.conf >= l.conf THEN r.angle[1] ELSE l.angle[1])]_vars

\* a squat frame with the right knee at 151 degrees and the left at 180, 29
\* degrees apart, the confidences 0.60 and 0.90: the working angle is the
\* average 165.5, neither knee's own angle
C23_Witness ==
    /\ op.name = "analyze_legs"
    /\ counter.kind = "squat"
    /\ op.legs = [r |-> [conf |-> ConfU(60), angle |-> Some(AngleU(151))],
                  l |-> [conf |-> ConfU(90), angle |-> Some(AngleU(180))]]
    /\ NewestSampleIs(counter, (AngleU(151) + AngleU(180)) \div 2)

\* in arm-curl the selection returns the angle v, and the frame, if its
\* confidence reaches the floor, puts v in the window
CurlWorkingIs(f, c, v) ==
    /\ WorkingOf("armcurl", f)[1] = Some(v)
    /\ Accepts("armcurl", f) => NewestSampleIs(c, v)

\* C24 as stated: in arm-curl, when both arms yield a valid angle and their
\* confidences differ by less than 0.1, the working angle is the average of
\* the two elbow angles; otherwise it is the angle of the more confident arm.
C24_CurlAverageByConfidence ==
    [][(op'.name = "analyze" /\ counter.kind = "armcurl" /\ ~IsAbsent(op'.frame))
         => LET r == RightArm(op'.frame.kp)
                l == LeftArm(op'.frame.kp)
            IN  (r.angle # None /\ l.angle # None)
                  => CurlWorkingIs(op'.frame, counter',
                         IF Abs(r.conf - l.conf) < ConfU(10)
                         THEN (r.angle[1] + l.angle[1]) \div 2
                         ELSE IF r.conf >= l.conf THEN r.angle[1] ELSE l.angle[1])]_vars

\* C24, amended: in arm-curl, when both arms yield a valid angle, the working
\* angle is the angle of the more confident arm (the right arm when the
\* confidences are equal), however close the confidences are; the two angles
\* are never averaged.
C24_CurlMoreConfidentArm ==
    [][(op'.name = "analyze" /\ counter.kind = "armcurl" /\ ~IsAbsent(op'.frame))
         => LET r == RightArm(op'.frame.kp)
                l == LeftArm(op'.frame.kp)
            IN  (r.angle # None /\ l.angle # None)
                  => CurlWorkingIs(op'.frame, counter',
                         IF r.conf >= l.conf THEN r.angle[1] ELSE l.angle[1])]_vars

\* an arm-curl frame with the right elbow at 90 degrees and the left at 180,
\* the confidences 0.85 and 0.90: the working angle is the left elbow's
C24_Witness ==
    /\ op.name = "analyze"
    /\ counter.kind = "armcurl"
    /\ op.frame = Pose(D90, D180, D180, D180, 85, 90)
    /\ NewestSampleIs(counter, AngleU(180))

\* C25: in squat, when one leg's angle is None because two of its joints
\* coincide and the other leg has an angle and a confidence >= 0.3, the
\* other leg's angle is the working angle and the frame is accepted,
\* whatever the confidence of the degenerate leg.
C25_DegenerateLegIgnored ==
    [][(op'.name = "analyze" /\ counter.kind = "squat" /\ ~IsAbsent(op'.frame))
         => LET r == RightLeg(op'.frame.kp)
                l == LeftLeg(op'.frame.kp)
            IN  /\ (r.angle = None /\ ValidSide(l, 30))
                     => /\ ret'.angle # None
                        /\ NewestSampleIs(counter', l.angle[1])
                /\ (l.angle = None /\ ValidSide(r, 30))
                     => /\ ret'.angle # None
                        /\ NewestSampleIs(counter', r.angle[1])]_vars

\* the capacity of an angle exercise's window
WindowOf(kind) == IF kind = "armcurl" THEN 5 ELSE 3

\* C26: the push-up and squat windows hold at most 3 entries and the
\* arm-curl window at most 5; a frame that yields a working angle at or above
\* the floor puts that angle at the end of the window, evicting the oldest
\* entry when the window is full, so that the window holds the most recent
\* accepted working angles in arrival order; a frame rejected as no-person,
\* None angle or below-floor confidence adds no entry.
C26_WindowHoldsRecent ==
    [][(IsFrameOp(op') /\ counter.kind \in {"pushup", "squat", "armcurl"})
         => LET h == counter.angle_history
                w == WorkingOf(counter.kind, op'.frame)[1][1]
            IN  /\ Len(counter'.angle_history) <= WindowOf(counter.kind)
                /\ counter'.angle_history =
                     IF ~Accepts(counter.kind, op'.frame) THEN h
                     ELSE IF Len(h) < WindowOf(counter.kind) THEN Append(h, w)
                     ELSE Append(Tail(h), w)]_vars

\* an arm-curl counter that has counted a rep on its eighth sample: the
\* window holds samples 4 to 8, the first three have been evicted
C26_Witness ==
    /\ op.name = "analyze"
    /\ counter.kind = "armcurl"
    /\ calls = 8
    /\ counter.count = 1
    /\ counter.angle_history =
         <<AngleU(45), AngleU(45), AngleU(180), AngleU(180), AngleU(180)>>

\* C27: on each frame a push-up or squat counter accepts, the smoothed angle
\* it reports is the frame's working angle when that is the only sample in
\* the window, and otherwise the arithmetic mean of the two most recent
\* accepted working angles; older window entries do not affect it.
C27_LastTwoMean ==
    [][(IsFrameOp(op') /\ HasDwell(counter) /\ Accepts(counter.kind, op'.frame))
         => LET h == counter.angle_history
                w == WorkingOf(counter.kind, op'.frame)[1][1]
            IN  ret'.angle = Some(IF h = <<>> THEN w ELSE (h[Len(h)] + w) \div 2)]_vars

\* a squat counter whose window holds 180, 90, 90 reports 90, the mean of
\* the last two, not the mean of the three
C27_Witness ==
    /\ op.name = "analyze"
    /\ counter.kind = "squat"
    /\ counter.angle_history = <<AngleU(180), AngleU(90), AngleU(90)>>
    /\ ret.angle = Some(AngleU(90))

\* a pull-up frame was accepted (its displacement appended) and the position
\* history, the new sample included, holds fewer than 5 samples
AcceptedWhileStarting(c, d) ==
    /\ c.kind = "pullup"
    /\ Len(d.position_history) = Len(c.position_history) + 1
    /\ Len(d.position_history) < 5

\* the call emitted no direction: the confirmed direction, the log of
\* direction changes and the consecutive-frame counters are as before
NoDirectionEmitted(c, d) ==
    /\ d.current_direction = c.current_direction
    /\ d.direction_history = c.direction_history
    /\ d.consecutive_up_frames = c.consecutive_up_frames
    /\ d.consecutive_down_frames = c.consecutive_down_frames

\* C28 as stated: on a confident pull-up frame accepted while the position
\* history holds fewer than 5 samples, analyze reports (count, "starting")
\* and emits no direction.
C28_StartingLabel ==
    [][(IsFrameOp(op') /\ AcceptedWhileStarting(counter, counter'))
         => /\ ret' = Ret(counter.count, None, "starting")
            /\ NoDirectionEmitted(counter, counter')]_vars

\* C28, amended: on a confident pull-up frame accepted while the position
\* history holds fewer than 5 samples, analyze reports (count, "stable"),
\* the count unchanged, and emits no direction.
C28_StableWhileStarting ==
    [][(IsFrameOp(op') /\ AcceptedWhileStarting(counter, counter'))
         => /\ ret' = Ret(counter.count, None, "stable")
            /\ counter'.count = counter.count
            /\ counter'.position = "stable"
            /\ NoDirectionEmitted(counter, counter')]_vars

\* the fourth sample of a pull-up counter, the wrists having moved by 20
\* pixels since the first
C28_Witness ==
    /\ op.name = "analyze"
    /\ counter.kind = "pullup"
    /\ counter.position_history = <<20, 20, 20, 0>>
    /\ ret.label = "stable"

\* a pull-up frame with somebody in it and the four joints at or above the
\* confidence floor, after which the history holds at least 5 samples
DirectionFrame(c, d, f) ==
    /\ c.kind = "pullup"
    /\ ~IsAbsent(f)
    /\ min_joint_confidence(f.kp) >= min_confidence
    /\ Len(d.position_history) >= 5

\* C29: once the position history holds 5 samples, the movement of a frame
\* is the newest displacement minus the displacement 5 samples back (the
\* oldest of the 5 most recent, the newest included), and the frame counts
\* as an UP frame exactly when the movement is above movement_threshold (4
\* pixels) and as a DOWN frame exactly when it is below -movement_threshold:
\* the up counter grows on UP frames only, the down counter on DOWN frames
\* only.
C29_MovementOverFive ==
    [][(IsFrameOp(op') /\ DirectionFrame(counter, counter', op'.frame))
         => LET h == counter'.position_history
                movement == h[Len(h)] - h[Len(h) - 4]
            IN  /\ h[Len(h)] = wrist_shoulder_diff(op'.frame.kp)
                /\ movement > 4
                     <=> counter'.consecutive_up_frames > counter.consecutive_up_frames
                /\ movement < -4
                     <=> counter'.consecutive_down_frames > counter.consecutive_down_frames]_vars

\* the sixth sample is 9 pixels above the second and level with the first:
\* an UP frame
C29_Witness ==
    /\ op.name = "analyze"
    /\ counter.kind = "pullup"
    /\ counter.position_history = <<9, 0, 0, 0, 0, 9>>
    /\ counter.consecutive_up_frames = 2
    /\ counter.consecutive_down_frames = 0

\* C30: the consecutive-frame counters, kept in half frames: an UP frame adds
\* one frame to the up counter and sets the down counter to 0, a DOWN frame
\* adds one frame to the down counter and sets the up counter to 0, and a
\* STABLE frame lowers each non-zero counter by half a frame, never below 0.
C30_ConsecutiveCounters ==
    [][(IsFrameOp(op') /\ DirectionFrame(counter, counter', op'.frame))
         => LET d == new_direction_of(counter'.position_history)
                up == counter.consecutive_up_frames
                down == counter.consecutive_down_frames
            IN  /\ d = "up"
                     => /\ counter'.consecutive_up_frames = up + 2
                        /\ counter'.consecutive_down_frames = 0
                /\ d = "down"
                     => /\ counter'.consecutive_down_frames = down + 2
                        /\ counter'.consecutive_up_frames = 0
                /\ d = "stable"
                     => /\ counter'.consecutive_up_frames = Max(0, up - 1)
                        /\ counter'.consecutive_down_frames = Max(0, down - 1)]_vars

\* an UP frame followed by a STABLE frame whose movement is exactly the
\* threshold: the up counter stands at half a frame
C30_Witness ==
    /\ op.name = "analyze"
    /\ counter.kind = "pullup"
    /\ counter.position_history = <<0, 0, 0, 0, 9, 4>>
    /\ counter.consecutive_up_frames = 1
    /\ counter.consecutive_down_frames = 0

\* C31: the confirmed direction of a pull-up counter becomes UP (DOWN) only
\* on a frame that leaves the up (down) counter at min_consecutive_frames or
\* more, becomes STABLE only on a frame that leaves both counters at 0, and
\* keeps its value on every other frame, rejected frames included.
C31_ConfirmedDirection ==
    [][(IsFrameOp(op') /\ counter.kind = "pullup")
         => LET up == counter'.consecutive_up_frames
                down == counter'.consecutive_down_frames
                was == counter.current_direction
                is == counter'.current_direction
            IN  /\ (is = "up" /\ was # "up") => up >= 2 * 3
                /\ (is = "down" /\ was # "down") => down >= 2 * 3
                /\ (is = "stable" /\ was # "stable") => (up = 0 /\ down = 0)
                /\ is \in {"up", "down", "stable"}
                /\ (up < 2 * 3 /\ down < 2 * 3 /\ (up > 0 \/ down > 0)) => is = was
                /\ ~DirectionFrame(counter, counter', op'.frame) => is = was]_vars

\* an UP confirmed on three frames in a row and kept through a frame without
\* a clear direction, the up counter standing at 2.5 frames
C31_Witness ==
    /\ op.name = "analyze"
    /\ counter.kind = "pullup"
    /\ counter.current_direction = "up"
    /\ counter.consecutive_up_frames = 5

\* went_down is set exactly when the counter is in the DOWN state
FlagMatchesState(c) == HasDwell(c) => (c.went_down <=> c.state = "down")

\* C32: in every reachable state of a push-up or squat counter went_down is
\* true if and only if the state is DOWN; so every DOWN->UP transition finds
\* the flag set and raises the count by exactly 1.
C32_WentDownIffDown ==
    [][/\ FlagMatchesState(counter)
       /\ FlagMatchesState(counter')
       /\ (IsFrameOp(op') /\ HasDwell(counter)
           /\ counter.state = "down" /\ counter'.state = "up")
            => /\ counter.went_down
               /\ counter'.count = counter.count + 1]_vars

\* a squat counter that has just come up and counted its first rep
C32_Witness ==
    /\ op.name = "update"
    /\ counter.kind = "squat"
    /\ counter.state = "up"
    /\ ChangedOnLastFrame(counter)
    /\ op.count_before = 0
    /\ counter.count = 1
    /\ ~counter.went_down

\* the 5-sample mean an arm-curl frame was judged on is below the up threshold
CurlDetected(d, r) ==
    /\ r.angle # None
    /\ Len(d.angle_history) = 5
    /\ Mean(d.angle_history) < AngleU(90)

\* C33: an arm-curl counter starts and is reset in the DOWN state with count
\* 0; it enters the UP state only on a frame whose 5-sample mean is below
\* up_threshold (a curl detection), and the count grows, by 1, only on a
\* frame that leaves the UP state: so the count never exceeds the number of
\* curl detections, and as long as no mean drops below up_threshold the
\* count stays 0, however often the mean exceeds down_threshold.
C33_CurlGated ==
    [][counter'.kind = "armcurl"
         => /\ ~IsFrameOp(op') => (counter'.count = 0 /\ counter'.state = "down")
            /\ (IsFrameOp(op') /\ counter'.state = "up" /\ counter.state = "down")
                 => CurlDetected(counter', ret')
            /\ (IsFrameOp(op') /\ counter'.count # counter.count)
                 => /\ counter.state = "up"
                    /\ counter'.state = "down"
                    /\ counter'.count = counter.count + 1
            /\ (IsFrameOp(op') /\ counter.state = "down" /\ counter.count = 0
                /\ ~CurlDetected(counter', ret'))
                 => (counter'.state = "down" /\ counter'.count = 0)]_vars

\* six frames of an extended arm: the mean is 180 degrees, above
\* down_threshold, and nothing has been counted
C33_Witness ==
    /\ op.name = "analyze"
    /\ counter.kind = "armcurl"
    /\ calls = 6
    /\ counter.angle_history =
         <<AngleU(180), AngleU(180), AngleU(180), AngleU(180), AngleU(180)>>
    /\ ret.angle = Some(AngleU(180))
    /\ counter.state = "down"
    /\ counter.count = 0

\* the three newest entries of a change log are DOWN, STABLE, UP
EndsDownStableUp(log) ==
    /\ Len(log) >= 3
    /\ log[Len(log) - 2][1] = "down"
    /\ log[Len(log) - 1][1] = "stable"
    /\ log[Len(log)][1] = "up"

\* C34: while DOWN, STABLE, UP are the three newest change-log entries, no
\* frame increases the count: not the one that confirms UP, and none after
\* it, whatever the distance between the logged displacements and however
\* long ago the last rep was.
C34_StableBreaksCycle ==
    [][(op'.name = "analyze" /\ counter.kind = "pullup")
         => LET log == LogAfterDetect(counter, counter', now, op'.frame)
            IN  EndsDownStableUp(log) => counter'.count = counter.count]_vars

\* DOWN was confirmed with the wrists level with the shoulders, the direction
\* fell back to STABLE, and UP has been confirmed 20 pixels lower
C34_Witness ==
    /\ op.name = "analyze"
    /\ counter.kind = "pullup"
    /\ EndsDownStableUp(counter.direction_history)
    /\ Abs(counter.direction_history[Len(counter.direction_history)][3]
           - counter.direction_history[Len(counter.direction_history) - 2][3])
         > min_movement_range
    /\ counter.count = 0

\* a confident pull-up frame that leaves the confirmed direction as it was,
\* given to a counter whose two newest log entries are DOWN then UP more than
\* min_movement_range apart: a complete cycle not yet counted
PendingCycleFrame(c, d, f) ==
    /\ c.kind = "pullup"
    /\ ~IsAbsent(f)
    /\ min_joint_confidence(f.kp) >= min_confidence
    /\ d.current_direction = c.current_direction
    /\ EndsDownUp(c.direction_history)
    /\ RangeOfLast(c.direction_history) > min_movement_range

\* C35: a DOWN->UP pair with sufficient range that was confirmed while the
\* cooldown was running is kept: a later confident frame that logs no
\* direction change leaves the log as it is while at most rep_cooldown has
\* passed since the last rep, and counts the rep, emptying the log, as soon
\* as more than rep_cooldown has passed.
C35_HeldBackThenCounted ==
    [][(op'.name = "analyze" /\ PendingCycleFrame(counter, counter', op'.frame))
         => IF now - counter.last_rep_time > rep_cooldown
            THEN /\ counter'.count = counter.count + 1
                 /\ counter'.last_rep_time = now
                 /\ counter'.direction_history = <<>>
            ELSE /\ counter'.count = counter.count
                 /\ counter'.direction_history = counter.direction_history]_vars

\* the second rep is counted on the fourth UP frame in a row, one frame after
\* the one that confirmed UP: the pair was held back by the cooldown
C35_Witness ==
    /\ op.name = "analyze"
    /\ counter.kind = "pullup"
    /\ op.count_before = 1
    /\ counter.count = 2
    /\ counter.consecutive_up_frames = 8
    /\ counter.last_rep_time = now

\* the frame on which the newest rep was counted, read off last_rep_time
\* under SpecPullLate: the first rep falls on the last frame of FirstRep, at
\* the clock reading all frames of the burst share, and frame BurstLen + j
\* arrives j waits later
FrameOfLastRep(c) ==
    IF c.last_rep_time = ClockStart
    THEN Len(FirstRep)
    ELSE BurstLen + (c.last_rep_time - ClockStart) \div (rep_cooldown + 1)

\* a frame that counts a rep counts one, FrameOfLastRep then names that
\* frame, and a rep after the first comes k or more frames after the rep
\* before it
RepsApart(k) ==
    (op'.name = "analyze" /\ counter'.count > counter.count)
      => /\ counter'.count = counter.count + 1
         /\ FrameOfLastRep(counter') = calls'
         /\ counter.count >= 1 => calls' - FrameOfLastRep(counter) >= k

\* C36 as stated: in pull-up, between any two count increments at least
\* 2 x min_consecutive_frames confident frames are processed.
C36_TwiceMinFramesApart == [][RepsApart(2 * min_consecutive_frames)]_vars

\* C36, amended: in pull-up every count increment after the first comes at
\* least min_consecutive_frames + 1 confident frames after the increment
\* before it.  The change log is cleared on a count and a new DOWN and a new
\* UP must each be logged afterwards, but the consecutive counters are not
\* reset by a count: after a rep that the cooldown held back the new DOWN
\* may need as little as one more frame; the new UP needs
\* min_consecutive_frames.
C36_MinFramesPlusOneApart == [][RepsApart(min_consecutive_frames + 1)]_vars

\* the third rep is counted on frame BurstLen + 5, after five waits.  The
\* cooldown held the second rep back through the burst, so it was counted on
\* frame BurstLen + 1 or later: at most 4 frames lie between the two.
C36_Witness ==
    /\ op.name = "analyze"
    /\ counter.kind = "pullup"
    /\ op.count_before = 2
    /\ counter.count = 3
    /\ calls = BurstLen + 5
    /\ counter.last_rep_time = ClockStart + 5 * (rep_cooldown + 1)
    /\ counter.direction_history = <<>>

\* the minimum dwell of a push-up or squat counter, in frames
MinFramesOf(kind) ==
    IF kind = "pushup" THEN MIN_FRAMES_IN_STATE ELSE min_frames_in_state

\* C37: in push-up and squat every analyze call adds one to the frame count
\* that the dwell is measured in, whether the frame is accepted or rejected
\* as no-person or low-confidence (a rejected frame changes nothing else),
\* and an accepted frame changes the state exactly when its smoothed angle
\* is beyond the threshold of the current state and the calls since the last
\* state change, this one and the rejected ones included, number at least
\* the minimum dwell.
C37_DwellCountsEveryCall ==
    [][(op'.name = "analyze" /\ HasDwell(counter))
         => LET f == op'.frame
                calls_in_state == counter.frame_count + 1 - counter.last_state_change
                crossed == IF counter.state = "up"
                           THEN ret'.angle[1] < DownThresholdOf(counter.kind)
                           ELSE ret'.angle[1] > UpThresholdOf(counter.kind)
            IN  /\ counter'.frame_count = counter.frame_count + 1
                /\ ~Accepts(counter.kind, f)
                     => counter' = [counter EXCEPT !.frame_count = @ + 1]
                /\ Accepts(counter.kind, f)
                     => /\ ret'.angle # None
                        /\ counter'.state # counter.state
                             <=> /\ calls_in_state >= MinFramesOf(counter.kind)
                                 /\ crossed]_vars

\* a squat counter went DOWN on frame 2 (90 then 180 degrees, smoothed to
\* 135), frame 3 was rejected and left no sample, and frame 4, the first
\* accepted frame after the state change, brought the counter UP and counted
C37_Witness ==
    /\ op.name = "analyze"
    /\ counter.kind = "squat"
    /\ counter.frame_count = 4
    /\ counter.last_state_change = 4
    /\ counter.state = "up"
    /\ op.count_before = 0
    /\ counter.count = 1
    /\ counter.angle_history = <<AngleU(90), AngleU(180), AngleU(180)>>

\* C38: switch_mode(m) with m equal to the current mode does nothing: the
\* mode, the active counter with all its state (its count included) and the
\* cumulative frame count are what they were before the call.
C38_SwitchSameMode ==
    [][(op'.name = "switch_mode" /\ op'.new_mode = mode)
         => /\ mode' = mode
            /\ counter' = counter
            /\ counter'.count = op'.count_before
            /\ frame_count' = frame_count
            /\ calls' = calls]_vars

\* a squat session that has counted a rep over three updates is switched to
\* squat
C38_Witness ==
    /\ op.name = "switch_mode"
    /\ op.new_mode = "squat"
    /\ mode = "squat"
    /\ op.count_before = 1
    /\ counter.count = 1
    /\ counter.state = "up"
    /\ frame_count = 5
    /\ calls = 3

\* no two adjacent entries of a change log have the same direction
NoRepeatedDirection(log) ==
    \A i \in 1..(Len(log) - 1) : log[i][1] # log[i + 1][1]

\* the change log of a pull-up counter is well formed: adjacent entries
\* differ in direction and the newest entry, if any, is the confirmed
\* direction
LogWellFormed(c) ==
    c.kind = "pullup"
      => /\ NoRepeatedDirection(c.direction_history)
         /\ c.direction_history # <<>>
              => c.direction_history[Len(c.direction_history)][1] = c.current_direction

\* C39: the pull-up change log gets an entry (new direction, now, this
\* frame's displacement) exactly on the frames where the confirmed direction
\* changes, and is otherwise left alone unless the frame counts a rep, which
\* empties it; it never holds two adjacent entries with the same direction,
\* and whenever it is non-empty its newest entry's direction is the current
\* confirmed direction.
C39_ChangeLog ==
    /\ []LogWellFormed(counter)
    /\ [][(IsFrameOp(op') /\ counter.kind = "pullup")
            => LET log == LogAfterDetect(counter, counter', now, op'.frame)
               IN  /\ counter'.direction_history
                        = IF counter'.count > counter.count THEN <<>> ELSE log
                   /\ counter'.current_direction # counter.current_direction
                        => /\ Len(log) = Len(counter.direction_history) + 1
                           /\ log[Len(log)] = <<counter'.current_direction, now,
                                                wrist_shoulder_diff(op'.frame.kp)>>
                   /\ counter'.current_direction = counter.current_direction
                        => log = counter.direction_history]_vars

\* the frame that confirms UP, 20 pixels below the shoulders, logs it after
\* a DOWN while the cooldown of the first rep is running: the log ends
\* DOWN, UP and the newest entry carries this frame's clock reading
C39_Witness ==
    /\ op.name = "analyze"
    /\ counter.kind = "pullup"
    /\ counter.count = 1
    /\ counter.current_direction = "up"
    /\ counter.consecutive_up_frames = 2 * min_consecutive_frames
    /\ Len(counter.direction_history) = 2
    /\ counter.direction_history[1][1] = "down"
    /\ counter.direction_history[2] = <<"up", now, 20>>

\* C40: in every reachable state of a pull-up counter consecutive_up_frames
\* and consecutive_down_frames are both at least 0 and at most one of them
\* is non-zero.
C40_CountersExclusive ==
    counter.kind = "pullup"
      => /\ counter.consecutive_up_frames >= 0
         /\ counter.consecutive_down_frames >= 0
         /\ \/ counter.consecutive_up_frames = 0
            \/ counter.consecutive_down_frames = 0

\* UP was confirmed and is still the confirmed direction; a DOWN frame has
\* zeroed the up counter and begun the down counter
C40_Witness ==
    /\ op.name = "analyze"
    /\ counter.kind = "pullup"
    /\ counter.current_direction = "up"
    /\ counter.consecutive_up_frames = 0
    /\ counter.consecutive_down_frames = 2

====
